---- MODULE Spec2Model ----
(***************************************************************************)
(* Snapshot Resolver and serving route of the anthropic.com mirror toolkit *)
(* (v2/app/www.anthropic.com/[[...path]]/route.ts).                        *)
(*                                                                         *)
(* A path is a sequence of one-character strings.  The file system is the  *)
(* set of absolute paths of its regular files; the directories are the     *)
(* proper prefixes of those paths.  path.* is the POSIX flavour of Node's  *)
(* path module.                                                            *)
(***************************************************************************)
EXTENDS Integers, Sequences, FiniteSets, TLC

VARIABLES files, req,
          site, phase, frontier, worker, timedOut, report,
          fetched, html, previous, passes,
          browser, page, consentLog,
          tracker, segment, news, xdl

\* the serving route
routeVars == <<files, req>>

\* the mirroring run
crawlVars == <<site, phase, frontier, worker, timedOut, report>>

\* the Localizer
locVars == <<fetched, html, previous, passes>>

\* the privacy banner script
consentVars == <<browser, page, consentLog>>

\* the sticky parameters script
trackerVars == <<tracker>>

\* the Segment tracking script
segVars == <<segment, news>>

\* the cross-domain link script
linkVars == <<xdl>>

\* everything but the serving route and the mirroring run
webVars == <<locVars, consentVars, trackerVars, segVars, linkVars>>

\* what the Localizer leaves alone, beside routeVars and crawlVars
besideLoc == <<consentVars, trackerVars, segVars, linkVars>>

\* what the privacy banner script leaves alone
besideConsent == <<routeVars, crawlVars, locVars, trackerVars, segVars,
                   linkVars>>

\* what the sticky parameters script leaves alone
besideTracker == <<routeVars, crawlVars, locVars, consentVars, segVars,
                   linkVars>>

\* what the Segment tracking script leaves alone
besideSeg == <<routeVars, crawlVars, locVars, consentVars, trackerVars,
               linkVars>>

\* what the cross-domain link script leaves alone
besideLinks == <<routeVars, crawlVars, locVars, consentVars, trackerVars,
                 segVars>>

vars == <<files, req, site, phase, frontier, worker, timedOut, report,
          fetched, html, previous, passes,
          browser, page, consentLog,
          tracker, segment, news, xdl>>

----------------------------------------------------------------------------
(* Bounds                                                                  *)

\* longest request path enumerated exhaustively over Alphabet
MaxLen == 3

Alphabet == {"a", "b", ".", "/"}

----------------------------------------------------------------------------
(* String helpers (JavaScript String.prototype and Node path.posix)        *)

SLASH == "/"
DOT == "."
DotDot == <<".", ".">>

StartsWith(s, prefix) ==
    /\ Len(prefix) <= Len(s)
    /\ SubSeq(s, 1, Len(prefix)) = prefix

\* s.replace(/^\/+/, "")
RECURSIVE StripLeadingSlashes(_)
StripLeadingSlashes(s) ==
    IF s # <<>> /\ Head(s) = SLASH THEN StripLeadingSlashes(Tail(s)) ELSE s

\* s.replace(/\/+$/, "")
RECURSIVE StripTrailingSlashes(_)
StripTrailingSlashes(s) ==
    IF s # <<>> /\ s[Len(s)] = SLASH
        THEN StripTrailingSlashes(SubSeq(s, 1, Len(s) - 1))
        ELSE s

UpperChars == <<"A","B","C","D","E","F","G","H","I","J","K","L","M",
                "N","O","P","Q","R","S","T","U","V","W","X","Y","Z">>
LowerChars == <<"a","b","c","d","e","f","g","h","i","j","k","l","m",
                "n","o","p","q","r","s","t","u","v","w","x","y","z">>

LowerChar(c) ==
    IF \E i \in 1..Len(UpperChars) : UpperChars[i] = c
        THEN LowerChars[CHOOSE i \in 1..Len(UpperChars) : UpperChars[i] = c]
        ELSE c

\* s.toLowerCase()
ToLowerCase(s) == [i \in 1..Len(s) |-> LowerChar(s[i])]

\* s.split("/")
RECURSIVE SplitAcc(_, _, _, _)
SplitAcc(s, i, cur, acc) ==
    IF i > Len(s) THEN Append(acc, cur)
    ELSE IF s[i] = SLASH THEN SplitAcc(s, i + 1, <<>>, Append(acc, cur))
    ELSE SplitAcc(s, i + 1, Append(cur, s[i]), acc)

Split(s) == SplitAcc(s, 1, <<>>, <<>>)

\* segs.join("/")
RECURSIVE JoinSegs(_)
JoinSegs(segs) ==
    IF segs = <<>> THEN <<>>
    ELSE IF Len(segs) = 1 THEN segs[1]
    ELSE segs[1] \o <<SLASH>> \o JoinSegs(Tail(segs))

\* normalizeString of Node's path module: drops empty and "." segments and
\* resolves ".." against the segment before it; above the start a ".." is
\* kept only when allowAboveRoot
RECURSIVE NormalizeSegs(_, _, _)
NormalizeSegs(segs, res, allowAboveRoot) ==
    IF segs = <<>> THEN res
    ELSE LET seg == Head(segs)
             rest == Tail(segs)
         IN  IF seg = <<>> \/ seg = <<DOT>>
                 THEN NormalizeSegs(rest, res, allowAboveRoot)
             ELSE IF seg = DotDot
                 THEN IF res # <<>> /\ res[Len(res)] # DotDot
                          THEN NormalizeSegs(rest, SubSeq(res, 1, Len(res) - 1),
                                             allowAboveRoot)
                      ELSE IF allowAboveRoot
                          THEN NormalizeSegs(rest, Append(res, DotDot),
                                             allowAboveRoot)
                      ELSE NormalizeSegs(rest, res, allowAboveRoot)
             ELSE NormalizeSegs(rest, Append(res, seg), allowAboveRoot)

\* path.posix.normalize
Normalize(p) ==
    IF p = <<>> THEN <<DOT>>
    ELSE LET isAbsolute == p[1] = SLASH
             trailingSeparator == p[Len(p)] = SLASH
             body == JoinSegs(NormalizeSegs(Split(p), <<>>, ~isAbsolute))
         IN  IF body = <<>>
                 THEN IF isAbsolute THEN <<SLASH>>
                      ELSE IF trailingSeparator THEN <<DOT, SLASH>>
                      ELSE <<DOT>>
             ELSE (IF isAbsolute THEN <<SLASH>> ELSE <<>>) \o body
                  \o (IF trailingSeparator THEN <<SLASH>> ELSE <<>>)

\* path.posix.join(a, b)
PathJoin(a, b) ==
    IF a = <<>> /\ b = <<>> THEN <<DOT>>
    ELSE IF a = <<>> THEN Normalize(b)
    ELSE IF b = <<>> THEN Normalize(a)
    ELSE Normalize(a \o <<SLASH>> \o b)

\* last segment of p, trailing slashes ignored
BaseName(p) ==
    LET t == StripTrailingSlashes(p)
        segs == Split(t)
    IN  segs[Len(segs)]

LastDot(s) ==
    IF \E i \in 1..Len(s) : s[i] = DOT
        THEN CHOOSE i \in 1..Len(s) :
                 s[i] = DOT /\ \A j \in (i + 1)..Len(s) : s[j] # DOT
        ELSE 0

\* path.posix.extname: from the last "." of the last segment to its end;
\* empty when there is no ".", when the "." is the segment's first
\* character, and for the segment ".."
ExtName(p) ==
    LET base == BaseName(p)
        d == LastDot(base)
    IN  IF d = 0 \/ d = 1 \/ base = DotDot THEN <<>>
        ELSE SubSeq(base, d, Len(base))

----------------------------------------------------------------------------
(* Constants of route.ts                                                   *)

\* process.cwd()
Cwd == <<"/","s","r","v">>

\* path.join(process.cwd(), "reference", "www.anthropic.com")
SNAPSHOT_ROOT ==
    PathJoin(PathJoin(Cwd, <<"r","e","f","e","r","e","n","c","e">>), <<"w","w","w",".","a","n","t","h","r","o","p","i","c",".","c","o","m">>)

\* extension -> content type
MIME_BY_EXT ==
    { 
      <<<<".","a","v","i","f">>, "image/avif">>,
      <<<<".","c","s","s">>, "text/css; charset=utf-8">>,
      <<<<".","g","i","f">>, "image/gif">>,
      <<<<".","h","t","m","l">>, "text/html; charset=utf-8">>,
      <<<<".","i","c","o">>, "image/x-icon">>,
      <<<<".","j","p","e","g">>, "image/jpeg">>,
      <<<<".","j","p","g">>, "image/jpeg">>,
      <<<<".","j","s">>, "application/javascript; charset=utf-8">>,
      <<<<".","j","s","o","n">>, "application/json; charset=utf-8">>,
      <<<<".","m","a","p">>, "application/json; charset=utf-8">>,
      <<<<".","m","p","4">>, "video/mp4">>,
      <<<<".","p","d","f">>, "application/pdf">>,
      <<<<".","p","n","g">>, "image/png">>,
      <<<<".","s","v","g">>, "image/svg+xml">>,
      <<<<".","t","x","t">>, "text/plain; charset=utf-8">>,
      <<<<".","w","e","b","m">>, "video/webm">>,
      <<<<".","w","e","b","p">>, "image/webp">>,
      <<<<".","w","o","f","f">>, "font/woff">>,
      <<<<".","w","o","f","f","2">>, "font/woff2">>,
      <<<<".","x","m","l">>, "application/xml; charset=utf-8">> }

OctetStream == "application/octet-stream"

IndexHtml == <<"i","n","d","e","x",".","h","t","m","l">>
DotHtml == <<".","h","t","m","l">>

\* the route segment app/www.anthropic.com/[[...path]]
RoutePrefix == <<"/","w","w","w",".","a","n","t","h","r","o","p","i","c",".","c","o","m">>

Null == <<>>

----------------------------------------------------------------------------
(* File system                                                             *)

\* fs.stat(p): "file", "dir" or the error "ENOENT"
Stat(fs, p) ==
    IF p \in fs THEN "file"
    ELSE IF \E f \in fs : StartsWith(f, p \o <<SLASH>>) THEN "dir"
    ELSE "ENOENT"

\* a tree: no regular file is also a directory
Consistent(fs) ==
    \A f \in fs : \A g \in fs : ~StartsWith(g, f \o <<SLASH>>)

----------------------------------------------------------------------------
(* Functions of route.ts                                                   *)

\* getMimeType without toLowerCase
getMimeType_CaseSensitive(filePath) ==
    LET ext == ExtName(filePath)
    IN  IF \E e \in MIME_BY_EXT : e[1] = ext
            THEN (CHOOSE e \in MIME_BY_EXT : e[1] = ext)[2]
            ELSE OctetStream

getMimeType(filePath) ==
    LET ext == ToLowerCase(ExtName(filePath))
    IN  IF \E e \in MIME_BY_EXT : e[1] = ext
            THEN (CHOOSE e \in MIME_BY_EXT : e[1] = ext)[2]
            ELSE OctetStream

\* exists answering from the listing of the mirror taken when the server
\* started, when the mirror was still empty
exists_StartupListing(fs, filePath) == Stat({}, filePath) = "file"

\* exists without the isFile test
exists_AnyEntry(fs, filePath) == Stat(fs, filePath) # "ENOENT"

\* try { (await fs.stat(filePath)).isFile() } catch { false }
exists(fs, filePath) == Stat(fs, filePath) = "file"

\* sanitizePath normalizing the raw path as a relative one, without guard
sanitizePath_Relative(rawPath) == StripLeadingSlashes(Normalize(rawPath))

sanitizePath(rawPath) ==
    LET normalized == StripLeadingSlashes(Normalize(<<SLASH>> \o rawPath))
    IN  IF StartsWith(normalized, <<DOT, DOT, SLASH>>) \/ normalized = DotDot
            THEN <<>>
            ELSE normalized

\* candidates with the fallbacks added whatever the extension
Candidates_AlwaysFallback(requestPath) ==
    LET cleanedPath == sanitizePath(requestPath)
        trimmed == StripTrailingSlashes(cleanedPath)
    IN  IF trimmed = <<>> THEN <<IndexHtml>>
        ELSE <<trimmed, trimmed \o DotHtml, PathJoin(trimmed, IndexHtml)>>

\* candidates without the index.html of the root path
Candidates_RootUnresolved(requestPath) ==
    LET cleanedPath == sanitizePath(requestPath)
        hasExt == ExtName(cleanedPath) # <<>>
        trimmed == StripTrailingSlashes(cleanedPath)
    IN  IF trimmed = <<>> THEN <<>>
        ELSE IF hasExt THEN <<trimmed>>
        ELSE <<trimmed, trimmed \o DotHtml, PathJoin(trimmed, IndexHtml)>>

\* the candidate set of resolveSnapshotFile, in insertion order
\* candidates built from the cleaned path with its trailing slashes kept
Candidates_KeepTrailingSlash(requestPath) ==
    LET cleanedPath == sanitizePath(requestPath)
        hasExt == ExtName(cleanedPath) # <<>>
    IN  IF StripTrailingSlashes(cleanedPath) = <<>> THEN <<IndexHtml>>
        ELSE IF hasExt THEN <<cleanedPath>>
        ELSE <<cleanedPath, cleanedPath \o DotHtml,
               PathJoin(cleanedPath, IndexHtml)>>

Candidates(requestPath) ==
    LET cleanedPath == sanitizePath(requestPath)
        hasExt == ExtName(cleanedPath) # <<>>
        trimmed == StripTrailingSlashes(cleanedPath)
    IN  IF trimmed = <<>> THEN <<IndexHtml>>
        ELSE IF hasExt THEN <<trimmed>>
        ELSE <<trimmed, trimmed \o DotHtml, PathJoin(trimmed, IndexHtml)>>

\* path.join(SNAPSHOT_ROOT, candidate)
Absolute(candidate) == PathJoin(SNAPSHOT_ROOT, candidate)

\* the absolute candidates the loop of resolveSnapshotFile passes to exists:
\* those that start with SNAPSHOT_ROOT, in order
Probes(requestPath) ==
    LET cs == Candidates(requestPath)
        abs == [i \in 1..Len(cs) |-> Absolute(cs[i])]
    IN  SelectSeq(abs, LAMBDA a : StartsWith(a, SNAPSHOT_ROOT))

\* getRequestPath whose pattern never matches: the prefix stays in the path
getRequestPath_KeepPrefix(pathname) == pathname

\* request.nextUrl.pathname.replace(/^\/www\.anthropic\.com\/?/, "")
getRequestPath(pathname) ==
    IF StartsWith(pathname, RoutePrefix)
        THEN LET rest == SubSeq(pathname, Len(RoutePrefix) + 1, Len(pathname))
             IN  IF rest # <<>> /\ Head(rest) = SLASH THEN Tail(rest) ELSE rest
        ELSE pathname

----------------------------------------------------------------------------
(* Inputs                                                                  *)

\* files the mirror may hold, relative to SNAPSHOT_ROOT
MirrorPool ==
    { <<"i","n","d","e","x",".","h","t","m","l">>,
      <<"a","/","b">>,
      <<"a","/","b",".","h","t","m","l">>,
      <<"a","/","b","/","i","n","d","e","x",".","h","t","m","l">>,
      <<"a",".","b">>,
      <<"a",".","b",".","h","t","m","l">>,
      <<"a",".","b","/","i","n","d","e","x",".","h","t","m","l">>,
      <<"a",".","J","S">> }

PairPool ==
    { <<"i","n","d","e","x",".","h","t","m","l">>,
      <<"a","/","b">>,
      <<"a","/","b",".","h","t","m","l">>,
      <<"a","/","b","/","i","n","d","e","x",".","h","t","m","l">> }

\* their absolute paths
MirrorFiles == { Absolute(f) : f \in MirrorPool }
PairFiles == { Absolute(f) : f \in PairPool }

\* files outside the mirror root; the last one is a sibling whose name
\* extends the root's name
OutsideFiles ==
    { Cwd \o <<"/","s","e","c","r","e","t">>,
      SNAPSHOT_ROOT \o <<".","a">> }

\* every string over Alphabet of at most MaxLen characters
BoundedPaths == UNION { [1..n -> Alphabet] : n \in 0..MaxLen }

\* longer request paths of interest
ExtraPaths ==
    { <<"a","/","b","/">>,
      <<"a",".","J","S">>,
      <<"a",".","b","/">>,
      <<"a","/","b",".","h","t","m","l">>,
      <<"a","/","b","/","i","n","d","e","x",".","h","t","m","l">>,
      <<"i","n","d","e","x",".","h","t","m","l">>,
      <<".",".","/","i","n","d","e","x",".","h","t","m","l">>,
      <<"a","/",".",".","/",".",".","/","a",".","b">>,
      <<".",".","/","w","w","w",".","a","n","t","h","r","o","p","i","c",".","c","o","m",".","a">>,
      <<"a",".","b",".","h","t","m","l">> }

RequestPaths == BoundedPaths \cup ExtraPaths

PairPaths ==
    { <<>>,
      <<"a","/","b">>,
      <<"a","/","b","/">>,
      <<"a","/","b",".","h","t","m","l">>,
      <<".",".","/","a",".","b">> }

\* the pathnames the route receives for the request paths ps
Pathnames(ps) ==
    {RoutePrefix} \cup { RoutePrefix \o <<SLASH>> \o p : p \in ps }

Clients == {"c1"}
PairClients == {"c1", "c2"}

----------------------------------------------------------------------------
(* State                                                                   *)

\* files: the regular files of the file system (absolute paths)
\* req[c]: the handler invocation of client c:
\*   pc            "idle", "stat" (awaiting fs.stat of Head(probes)), "read"
\*                 (awaiting fs.readFile), "done" (Response returned) or
\*                 "threw" (promise rejected)
\*   headOnly      the handler is HEAD
\*   requestPath   the argument of serveFile
\*   probes        candidates of resolveSnapshotFile not yet tested
\*   snapshotFile  the result of resolveSnapshotFile, Null before and for null
\*   status, headers, body   the Response
\*   stable        no file was added or removed since the handler started

NoHeaders == {}

IdleReq ==
    [pc |-> "idle", headOnly |-> FALSE, requestPath |-> <<>>, probes |-> <<>>,
     snapshotFile |-> Null, status |-> 0, headers |-> NoHeaders,
     body |-> "none", stable |-> TRUE]

InitialFiles == OutsideFiles

\* no mirroring run is in progress
CrawlOff ==
    /\ site = "none"
    /\ phase = "off"
    /\ frontier = {}
    /\ worker = <<>>
    /\ timedOut = FALSE
    /\ report = <<>>

\* no Localizer run is in progress
LocOff ==
    /\ fetched = <<>>
    /\ html = <<>>
    /\ previous = <<>>
    /\ passes = 0

\* no page is loaded
ConsentOff ==
    /\ browser = <<>>
    /\ page = <<>>
    /\ consentLog = <<>>

\* the tracking scripts are not running
ScriptsOff ==
    /\ tracker = <<>>
    /\ segment = <<>>
    /\ news = <<>>
    /\ xdl = <<>>

WebOff == LocOff /\ ConsentOff /\ ScriptsOff

Init ==
    /\ files = InitialFiles
    /\ req = [c \in Clients |-> IdleReq]
    /\ CrawlOff
    /\ WebOff

InitPair ==
    /\ files = InitialFiles
    /\ req = [c \in PairClients |-> IdleReq]
    /\ CrawlOff
    /\ WebOff

----------------------------------------------------------------------------
(* serveFile                                                               *)

\* new Response("Not Found", { status: 404 })
NotFound(r) ==
    [r EXCEPT !.pc = "done", !.status = 404,
              !.headers = {<<"content-type", "text/plain;charset=UTF-8">>},
              !.body = "Not Found"]

ResponseHeaders(snapshotFile) ==
    { <<"cache-control", "public, max-age=0">>,
      <<"content-type", getMimeType(snapshotFile)>> }

\* serveFile answering HEAD before the headers are built
AfterResolve_HeadBare(r, snapshotFile) ==
    IF snapshotFile = Null THEN NotFound(r)
    ELSE IF r.headOnly
        THEN [r EXCEPT !.pc = "done", !.snapshotFile = snapshotFile,
                       !.status = 200, !.body = "null"]
    ELSE [r EXCEPT !.pc = "read", !.snapshotFile = snapshotFile,
                   !.headers = ResponseHeaders(snapshotFile)]

\* serveFile after resolveSnapshotFile has returned snapshotFile
AfterResolve(r, snapshotFile) ==
    IF snapshotFile = Null THEN NotFound(r)
    ELSE IF r.headOnly
        THEN [r EXCEPT !.pc = "done", !.snapshotFile = snapshotFile,
                       !.status = 200,
                       !.headers = ResponseHeaders(snapshotFile),
                       !.body = "null"]
    ELSE [r EXCEPT !.pc = "read", !.snapshotFile = snapshotFile,
                   !.headers = ResponseHeaders(snapshotFile)]

\* the loop of resolveSnapshotFile up to its next await
Resolve(r, probes) ==
    IF probes = <<>> THEN AfterResolve(r, Null)
    ELSE [r EXCEPT !.pc = "stat", !.probes = probes]

\* entry of serveFile(requestPath, headOnly)
serveFile(c, requestPath, headOnly) ==
    /\ req[c].pc = "idle"
    /\ req' = [req EXCEPT ![c] =
                 Resolve([IdleReq EXCEPT !.headOnly = headOnly,
                                         !.requestPath = requestPath],
                         Probes(requestPath))]
    /\ UNCHANGED <<files, crawlVars, webVars>>

GET(c, pathname) == serveFile(c, getRequestPath(pathname), FALSE)

HEAD(c, pathname) == serveFile(c, getRequestPath(pathname), TRUE)

\* StatDone with the candidate set kept in one variable shared by all
\* invocations: the candidate tested is that of the last invocation to start
StatDone_SharedCandidates(c) ==
    /\ req[c].pc = "stat"
    /\ LET r == req[c]
           others == { d \in DOMAIN req : d # c /\ req[d].pc = "stat" }
           shared == IF others = {} THEN r.probes
                     ELSE req[CHOOSE d \in others : TRUE].probes
           absolute == Head(shared)
       IN  req' = [req EXCEPT ![c] =
                     IF exists(files, absolute)
                         THEN AfterResolve(r, absolute)
                         ELSE Resolve(r, Tail(r.probes))]
    /\ UNCHANGED <<files, crawlVars, webVars>>

\* await exists(absolute) for the candidate at the head of probes
StatDone(c) ==
    /\ req[c].pc = "stat"
    /\ LET r == req[c]
           absolute == Head(r.probes)
       IN  req' = [req EXCEPT ![c] =
                     IF exists(files, absolute)
                         THEN AfterResolve(r, absolute)
                         ELSE Resolve(r, Tail(r.probes))]
    /\ UNCHANGED <<files, crawlVars, webVars>>

\* await fs.readFile(snapshotFile); rejects unless it is a regular file
ReadDone(c) ==
    /\ req[c].pc = "read"
    /\ LET r == req[c]
       IN  req' = [req EXCEPT ![c] =
                     IF Stat(files, r.snapshotFile) = "file"
                         THEN [r EXCEPT !.pc = "done", !.status = 200,
                                        !.body = "file"]
                         ELSE [r EXCEPT !.pc = "threw", !.headers = NoHeaders]]
    /\ UNCHANGED <<files, crawlVars, webVars>>

\* the Response (or the rejection) reaches the caller; the invocation ends
Return(c) ==
    /\ req[c].pc \in {"done", "threw"}
    /\ req' = [req EXCEPT ![c] = IdleReq]
    /\ UNCHANGED <<files, crawlVars, webVars>>

----------------------------------------------------------------------------
(* Mirror refresh: the mirroring scripts add, replace and remove files     *)

MarkChanged(r) == IF r.pc = "idle" THEN r ELSE [r EXCEPT !.stable = FALSE]

AddFile(f) ==
    /\ f \notin files
    /\ Consistent(files \cup {f})
    /\ files' = files \cup {f}
    /\ req' = [c \in DOMAIN req |-> MarkChanged(req[c])]
    /\ UNCHANGED <<crawlVars, webVars>>

RemoveFile(f) ==
    /\ f \in files
    /\ files' = files \ {f}
    /\ req' = [c \in DOMAIN req |-> MarkChanged(req[c])]
    /\ UNCHANGED <<crawlVars, webVars>>

----------------------------------------------------------------------------
(* Specifications                                                          *)

Next ==
    \/ \E c \in Clients : \E pn \in Pathnames(RequestPaths) : GET(c, pn)
    \/ \E c \in Clients : \E pn \in Pathnames(RequestPaths) : HEAD(c, pn)
    \/ \E c \in Clients : StatDone(c)
    \/ \E c \in Clients : ReadDone(c)
    \/ \E c \in Clients : Return(c)
    \/ \E f \in MirrorFiles : AddFile(f)
    \/ \E f \in MirrorFiles : RemoveFile(f)

Spec == Init /\ [][Next]_vars

NextPair ==
    \/ \E c \in PairClients : \E pn \in Pathnames(PairPaths) : GET(c, pn)
    \/ \E c \in PairClients : \E pn \in Pathnames(PairPaths) : HEAD(c, pn)
    \/ \E c \in PairClients : StatDone(c)
    \/ \E c \in PairClients : ReadDone(c)
    \/ \E c \in PairClients : Return(c)
    \/ \E f \in PairFiles : AddFile(f)
    \/ \E f \in PairFiles : RemoveFile(f)

SpecPair == InitPair /\ [][NextPair]_vars

----------------------------------------------------------------------------
(* The mirroring run: URL Discoverer, Crawler, Downloader and Report       *)
(* Generator, as the design describes them                                 *)

\* configuration of a run
MaxDepth == 2
MaxUrls == 5

Workers == {"w1", "w2"}

ExampleHost == "example.com"
OtherHost == "other.org"
AllowedHosts == {ExampleHost}

PathRoot == <<"/">>
PathA == <<"/","a">>
PathB == <<"/","b">>
PathC == <<"/","c">>
PathPrivateX == <<"/","p","r","i","v","a","t","e","/","x">>
PathPrivateY == <<"/","p","r","i","v","a","t","e","/","y">>
Path1 == <<"/","1">>
Path2 == <<"/","2">>
Path3 == <<"/","3">>
Path4 == <<"/","4">>
PathW == <<"/","w">>
PathX == <<"/","x">>
PathZ == <<"/","z">>

Url(scheme, host, path, query, frag) ==
    [scheme |-> scheme, host |-> host, path |-> path, query |-> query,
     frag |-> frag]

\* an absolute page address of the mirrored host
Page(path) == Url("https", ExampleHost, path, "", "")

\* a reference of the page's own host with a query or a fragment
PageRef(path, query, frag) == Url("https", ExampleHost, path, query, frag)

\* the reference "#top": no scheme, host or path
FragmentOnly == Url("", "", <<>>, "", "top")

NoUrl == Url("", "", <<>>, "", "")

StartUrl == Page(PathRoot)

\* normalization that strips the fragment only
NormalizeUrl_KeepQuery(u) == [u EXCEPT !.frag = ""]

\* normalized URL: scheme + host + path; query and fragment stripped
NormalizeUrl(u) == [u EXCEPT !.query = "", !.frag = ""]

\* a reference resolved against the base URL of the page it stands on
ResolveRef(base, ref) ==
    IF ref.scheme # "" THEN ref
    ELSE [ref EXCEPT !.scheme = base.scheme, !.host = base.host,
                     !.path = IF ref.path = <<>> THEN base.path ELSE ref.path]

\* the sites a run may mirror
Sites == {"scenario", "wide"}

\* Disallow directives of robots.txt
RobotsDisallow(s) == { <<"/","p","r","i","v","a","t","e","/">> }

\* URLs listed by the sitemap files
Sitemap(s) ==
    IF s = "scenario" THEN <<Page(PathA), Page(PathB)>>
    ELSE <<Page(Path1), PageRef(Path1, "ref", ""), Page(PathPrivateY),
           Url("https", OtherHost, PathZ, "", "")>>

\* hyperlink references found in the page at u
Links(s, u) ==
    IF s = "scenario" THEN
        IF u.path = PathRoot
            THEN <<PageRef(PathA, "", "top"), PageRef(PathB, "ref", ""),
                   FragmentOnly, Url("mailto", "", <<>>, "", ""),
                   Url("https", OtherHost, PathZ, "", "")>>
        ELSE IF u.path = PathA THEN <<Page(PathC), Page(PathPrivateX)>>
        ELSE IF u.path = PathC THEN <<Page(PathRoot)>>
        ELSE <<>>
    ELSE
        IF u.path = PathRoot THEN <<Page(Path1), Page(PathW)>>
        ELSE IF u.path = Path1 THEN <<Page(Path2), Page(PathX)>>
        ELSE IF u.path = PathW THEN <<PageRef(Path2, "s", "")>>
        ELSE IF u.path = Path2 THEN <<Page(Path3)>>
        ELSE IF u.path = Path3 THEN <<Page(Path4)>>
        ELSE <<>>

\* classified outcomes of a fetch
FailureReasons == {"network", "http4xx", "http5xx", "timeout"}
Outcomes == {"success"} \cup FailureReasons

\* exclusion by exact match of the directive instead of prefix match
Disallowed_ExactMatch(s, path) == path \in RobotsDisallow(s)

Disallowed(s, path) == \E d \in RobotsDisallow(s) : StartsWith(path, d)

URLRecord(u, depth, source) ==
    [url |-> u, depth |-> depth, source |-> source, status |-> "pending",
     reason |-> "", fetches |-> 0]

\* Enqueue without the depth and the count bound
Enqueue_Unbounded(s, fr, raw, depth, source) ==
    LET u == [raw EXCEPT !.query = "", !.frag = ""]
    IN  IF \/ raw.scheme # "https"
           \/ u.host \notin AllowedHosts
           \/ \E d \in RobotsDisallow(s) : StartsWith(u.path, d)
           \/ \E r \in fr : r.url = u
            THEN fr
            ELSE fr \cup {[url |-> u, depth |-> depth, source |-> source,
                           status |-> "pending", reason |-> "", fetches |-> 0]}

\* a discovered reference enters the Frontier unless it is not HTTP(S), of
\* an external host, excluded by robots, already recorded, or beyond the
\* depth or count bound
Enqueue(s, fr, raw, depth, source) ==
    LET u == NormalizeUrl(raw)
    IN  IF \/ raw.scheme # "https"
           \/ u.host \notin AllowedHosts
           \/ Disallowed(s, u.path)
           \/ \E r \in fr : r.url = u
           \/ depth > MaxDepth
           \/ Cardinality(fr) >= MaxUrls
            THEN fr
            ELSE fr \cup {URLRecord(u, depth, source)}

RECURSIVE EnqueueAll(_, _, _, _, _)
EnqueueAll(s, fr, raws, depth, source) ==
    IF raws = <<>> THEN fr
    ELSE EnqueueAll(s, Enqueue(s, fr, Head(raws), depth, source), Tail(raws),
                    depth, source)

RecordOf(fr, u) == CHOOSE r \in fr : r.url = u

Busy(w) == worker[w] # NoUrl

\* pending records no worker holds
Claimable == { r \in frontier : r.status = "pending"
                                /\ \A w \in Workers : worker[w] # r.url }

NoReport == [discovered |-> 0, fetched |-> 0, failed |-> 0, failures |-> {}]

InitCrawl ==
    /\ files = InitialFiles
    /\ req = [c \in Clients |-> IdleReq]
    /\ site \in Sites
    /\ phase = "discover"
    /\ frontier = {}
    /\ worker = [w \in Workers |-> NoUrl]
    /\ timedOut = FALSE
    /\ report = NoReport
    /\ WebOff

\* URL Discoverer: the start URL and the sitemap listings seed the Frontier
Discover ==
    /\ phase = "discover"
    /\ frontier' = EnqueueAll(site,
                              EnqueueAll(site, {}, <<StartUrl>>, 0, "seed"),
                              Sitemap(site), 0, "sitemap")
    /\ phase' = "crawl"
    /\ UNCHANGED <<routeVars, webVars, site, worker, timedOut, report>>

\* Claim that does not exclude the records other workers hold
Claim_NoExclusion(w) ==
    /\ phase = "crawl"
    /\ ~timedOut
    /\ ~Busy(w)
    /\ \E r \in { x \in frontier : x.status = "pending" } :
        /\ worker' = [worker EXCEPT ![w] = r.url]
        /\ frontier' = (frontier \ {r})
                           \cup {[r EXCEPT !.fetches = r.fetches + 1]}
    /\ UNCHANGED <<routeVars, webVars, site, phase, timedOut, report>>

\* Claim that goes on after the global timeout
Claim_IgnoresTimeout(w) ==
    /\ phase = "crawl"
    /\ ~Busy(w)
    /\ \E r \in Claimable :
        /\ \A r2 \in Claimable : r.depth <= r2.depth
        /\ worker' = [worker EXCEPT ![w] = r.url]
        /\ frontier' = (frontier \ {r})
                           \cup {[r EXCEPT !.fetches = r.fetches + 1]}
    /\ UNCHANGED <<routeVars, webVars, site, phase, timedOut, report>>

\* a free worker claims a pending record of least depth (breadth first);
\* nothing is claimed once the global timeout has fired
Claim(w) ==
    /\ phase = "crawl"
    /\ ~timedOut
    /\ ~Busy(w)
    /\ \E r \in Claimable :
        /\ \A r2 \in Claimable : r.depth <= r2.depth
        /\ worker' = [worker EXCEPT ![w] = r.url]
        /\ frontier' = (frontier \ {r})
                           \cup {[r EXCEPT !.fetches = r.fetches + 1]}
    /\ UNCHANGED <<routeVars, webVars, site, phase, timedOut, report>>

\* Settle that drops the record of a failed fetch from the Frontier
Settle_DropFailed(w, outcome) ==
    /\ phase = "crawl"
    /\ Busy(w)
    /\ LET r == RecordOf(frontier, worker[w])
           rest == IF outcome = "success"
                       THEN (frontier \ {r}) \cup {[r EXCEPT !.status = "fetched"]}
                       ELSE frontier \ {r}
           refs == Links(site, r.url)
           resolved == [i \in 1..Len(refs) |-> ResolveRef(r.url, refs[i])]
       IN  frontier' = IF outcome = "success" /\ ~timedOut
                           THEN EnqueueAll(site, rest, resolved, r.depth + 1,
                                           "link")
                           ELSE rest
    /\ worker' = [worker EXCEPT ![w] = NoUrl]
    /\ UNCHANGED <<routeVars, webVars, site, phase, timedOut, report>>

\* Settle that aborts the run on a failed fetch: every record nobody holds
\* is given up as failed
Settle_AbortOnFailure(w, outcome) ==
    /\ phase = "crawl"
    /\ Busy(w)
    /\ LET r == RecordOf(frontier, worker[w])
           settled == [r EXCEPT
                         !.status = IF outcome = "success" THEN "fetched"
                                    ELSE "failed",
                         !.reason = IF outcome = "success" THEN ""
                                    ELSE outcome]
           rest == (frontier \ {r}) \cup {settled}
           refs == Links(site, r.url)
           resolved == [i \in 1..Len(refs) |-> ResolveRef(r.url, refs[i])]
       IN  frontier' = IF outcome = "success" /\ ~timedOut
                           THEN EnqueueAll(site, rest, resolved, r.depth + 1,
                                           "link")
                       ELSE IF outcome = "success" THEN rest
                       ELSE { IF x \in Claimable
                                  THEN [x EXCEPT !.status = "failed",
                                                 !.reason = "aborted"]
                                  ELSE x : x \in rest }
    /\ worker' = [worker EXCEPT ![w] = NoUrl]
    /\ UNCHANGED <<routeVars, webVars, site, phase, timedOut, report>>

\* the fetch of worker w ends with a classified outcome; a fetched page's
\* links are enqueued one level deeper unless the time budget is spent
Settle(w, outcome) ==
    /\ phase = "crawl"
    /\ Busy(w)
    /\ LET r == RecordOf(frontier, worker[w])
           settled == [r EXCEPT
                         !.status = IF outcome = "success" THEN "fetched"
                                    ELSE "failed",
                         !.reason = IF outcome = "success" THEN ""
                                    ELSE outcome]
           rest == (frontier \ {r}) \cup {settled}
           refs == Links(site, r.url)
           resolved == [i \in 1..Len(refs) |-> ResolveRef(r.url, refs[i])]
       IN  frontier' = IF outcome = "success" /\ ~timedOut
                           THEN EnqueueAll(site, rest, resolved, r.depth + 1,
                                           "link")
                           ELSE rest
    /\ worker' = [worker EXCEPT ![w] = NoUrl]
    /\ UNCHANGED <<routeVars, webVars, site, phase, timedOut, report>>

\* the global timeout fires
Timeout ==
    /\ phase = "crawl"
    /\ ~timedOut
    /\ timedOut' = TRUE
    /\ UNCHANGED <<routeVars, webVars, site, phase, frontier, worker, report>>

Count(fr, status) == Cardinality({ r \in fr : r.status = status })

\* Report Generator: a function of the recorded URLRecords
MakeReportOf(fr) ==
    [discovered |-> Cardinality(fr),
     fetched |-> Count(fr, "fetched"),
     failed |-> Count(fr, "failed"),
     failures |-> { <<r.url, r.reason>> : r \in { x \in fr : x.status = "failed" } }]

\* the run ends when the fetches have drained and nothing is left to claim
\* or the timeout has fired
Report ==
    /\ phase = "crawl"
    /\ \A w \in Workers : ~Busy(w)
    /\ Claimable = {} \/ timedOut
    /\ report' = MakeReportOf(frontier)
    /\ phase' = "done"
    /\ UNCHANGED <<routeVars, webVars, site, frontier, worker, timedOut>>

NextCrawl ==
    \/ Discover
    \/ \E w \in Workers : Claim(w)
    \/ \E w \in Workers : \E o \in Outcomes : Settle(w, o)
    \/ Timeout
    \/ Report

SpecCrawl == InitCrawl /\ [][NextCrawl]_vars

\* a fetch ends (each has its own timeout), a free worker claims when
\* something is claimable, and the stages follow one another
FairCrawl ==
    /\ SpecCrawl
    /\ WF_vars(Discover)
    /\ \A w \in Workers : WF_vars(Claim(w))
    /\ \A w \in Workers : WF_vars(\E o \in Outcomes : Settle(w, o))
    /\ WF_vars(Report)

----------------------------------------------------------------------------
(* Vocabulary of the properties                                            *)

Terminal(r) == r.pc \in {"done", "threw"}

\* resolveSnapshotFile has returned
Resolved(r) == r.pc \in {"read", "done", "threw"}

\* the file rel of the mirror, by plain concatenation
InMirror(rel) == SNAPSHOT_ROOT \o <<SLASH>> \o rel

\* p names a location in the tree below the mirror root
InsideRoot(p) ==
    /\ StartsWith(p, SNAPSHOT_ROOT \o <<SLASH>>)
    /\ \A i \in 1..Len(Split(p)) : Split(p)[i] # DotDot

\* walking the segments of p from the mirror root steps above the root
RECURSIVE EscapesFrom(_, _)
EscapesFrom(segs, depth) ==
    IF segs = <<>> THEN FALSE
    ELSE IF Head(segs) = DotDot
        THEN depth = 0 \/ EscapesFrom(Tail(segs), depth - 1)
    ELSE IF Head(segs) = <<>> \/ Head(segs) = <<DOT>>
        THEN EscapesFrom(Tail(segs), depth)
    ELSE EscapesFrom(Tail(segs), depth + 1)

Escapes(p) == EscapesFrom(Split(p), 0)

\* the request path without ".", ".." and empty segments, segments joined
\* by single slashes, no leading or trailing slash
NormalForm(p) == JoinSegs(NormalizeSegs(Split(p), <<>>, FALSE))

IsRootPath(p) == NormalForm(p) = <<>>

\* the first path of cands that is a regular file, Null when there is none
RECURSIVE FirstFile(_, _)
FirstFile(fs, cands) ==
    IF cands = <<>> THEN Null
    ELSE IF InMirror(Head(cands)) \in fs THEN InMirror(Head(cands))
    ELSE FirstFile(fs, Tail(cands))

\* the ordered fallback of the Snapshot Resolver for a non-root path
Fallback(p) ==
    IF ExtName(p) # <<>> THEN <<p>>
    ELSE <<p, p \o DotHtml, p \o <<SLASH>> \o IndexHtml>>

HeaderOf(r, name) ==
    IF \E h \in r.headers : h[1] = name
        THEN (CHOOSE h \in r.headers : h[1] = name)[2]
        ELSE "absent"

\* the content type the extension table gives the file
TypeOfFile(file) ==
    LET ext == ToLowerCase(ExtName(file))
        hits == { e \in MIME_BY_EXT : e[1] = ext }
    IN  IF hits = {} THEN OctetStream ELSE (CHOOSE e \in hits : TRUE)[2]

P_ab == <<"a","/","b">>
P_abSlash == <<"a","/","b","/">>
F_abHtml == InMirror(<<"a","/","b",".","h","t","m","l">>)
F_abIndex == InMirror(<<"a","/","b","/","i","n","d","e","x",".","h","t","m","l">>)
F_ab == InMirror(<<"a","/","b">>)
F_index == InMirror(IndexHtml)
F_aJS == InMirror(<<"a",".","J","S">>)
F_aDotB == InMirror(<<"a",".","b">>)
F_aDotBHtml == InMirror(<<"a",".","b",".","h","t","m","l">>)

----------------------------------------------------------------------------
(* Properties                                                              *)

\* C1: whatever the request path and the mirror content, a file location
\* returned by resolveSnapshotFile, and so every file the server reads,
\* lies inside the mirror root.
C1_ResolvedInsideRoot ==
    \A c \in DOMAIN req :
        req[c].snapshotFile # Null => InsideRoot(req[c].snapshotFile)

\* a request whose ".." segments step above the root has resolved to a file
C1_Witness ==
    \E c \in DOMAIN req :
        /\ Escapes(req[c].requestPath)
        /\ req[c].snapshotFile # Null

\* C2: a request path with a parent-directory traversal that would escape
\* the mirror root is rejected: it is answered 404 whatever the mirror holds.
C2_TraversalRejected ==
    \A c \in DOMAIN req :
        (Escapes(req[c].requestPath) /\ Terminal(req[c]))
            => req[c].status = 404

C4_TrailingSlashPrefersIndex ==
    \A c \in DOMAIN req :
        LET r == req[c]
        IN  (Resolved(r) /\ r.stable /\ F_abHtml \in files /\ F_ab \notin files)
                => /\ r.requestPath = P_ab => r.snapshotFile = F_abHtml
                   /\ (r.requestPath = P_abSlash /\ F_abIndex \in files)
                          => r.snapshotFile = F_abIndex

\* C5: a request path whose last segment has a file extension resolves to
\* exactly that file or is unresolved; the ".html" and "/index.html"
\* fallbacks are never applied to it.
C5_NoFallbackWithExtension ==
    \A c \in DOMAIN req :
        LET r == req[c]
        IN  (Resolved(r) /\ ExtName(r.requestPath) # <<>>)
                => r.snapshotFile \in {Null, InMirror(NormalForm(r.requestPath))}

\* a path with extension was answered 404 while path + ".html" exists
C5_Witness ==
    \E c \in DOMAIN req :
        LET r == req[c]
        IN  /\ r.pc = "done" /\ r.stable /\ r.status = 404
            /\ ExtName(r.requestPath) # <<>>
            /\ InMirror(NormalForm(r.requestPath) \o DotHtml) \in files

\* C6: a request path that is empty or normalizes to the root has the single
\* candidate index.html at the mirror root: it resolves to that file when it
\* exists and is unresolved otherwise.
C6_RootIsIndexHtml ==
    \A c \in DOMAIN req :
        LET r == req[c]
        IN  IsRootPath(r.requestPath)
                => /\ r.pc = "stat" => r.probes = <<F_index>>
                   /\ r.snapshotFile \in {Null, F_index}
                   /\ (Resolved(r) /\ r.stable)
                          => (r.snapshotFile = F_index <=> F_index \in files)

\* a nonempty path that normalizes to the root was served index.html
C6_Witness ==
    \E c \in DOMAIN req :
        /\ IsRootPath(req[c].requestPath) /\ req[c].requestPath # <<>>
        /\ req[c].pc = "done" /\ req[c].status = 200
        /\ req[c].snapshotFile = F_index

\* C7: every GET or HEAD request is answered 200 exactly when its path
\* resolved to a mirror file and 404 (plain-text body) exactly when it did
\* not; a 200 response carries content-type and cache-control: public,
\* max-age=0.
C7_StatusMatchesResolution ==
    \A c \in DOMAIN req :
        LET r == req[c]
        IN  Terminal(r)
                => /\ r.status = 200 <=> r.snapshotFile # Null
                   /\ r.status = 404 <=> r.snapshotFile = Null
                   /\ r.status = 404 => r.body = "Not Found"
                   /\ r.status = 200
                          => /\ HeaderOf(r, "content-type") # "absent"
                             /\ HeaderOf(r, "cache-control") = "public, max-age=0"

\* C8: the content-type of a 200 response is the table's type for the
\* extension of the resolved file, compared case-insensitively, and
\* application/octet-stream when the extension is absent or unknown; the
\* request "a/b" resolved to a/b.html is served as text/html.
C8_ContentTypeOfResolvedFile ==
    \A c \in DOMAIN req :
        LET r == req[c]
            ct == HeaderOf(r, "content-type")
        IN  r.status = 200
                => /\ ct = TypeOfFile(r.snapshotFile)
                   /\ r.snapshotFile = F_abHtml => ct = "text/html; charset=utf-8"
                   /\ r.snapshotFile = F_aJS
                          => ct = "application/javascript; charset=utf-8"
                   /\ r.snapshotFile \in {F_ab, F_aDotB} => ct = OctetStream

\* the request "a/b" was served a/b.html as text/html
C8_Witness ==
    \E c \in DOMAIN req :
        /\ req[c].status = 200 /\ req[c].requestPath = P_ab
        /\ req[c].snapshotFile = F_abHtml
        /\ HeaderOf(req[c], "content-type") = "text/html; charset=utf-8"

\* C9: for the same request path and an unchanged mirror, HEAD and GET
\* return the same status and the same headers; only the body differs,
\* which HEAD leaves empty.
C9_HeadMatchesGet ==
    \A g \in DOMAIN req : \A h \in DOMAIN req :
        ( /\ Terminal(req[g]) /\ Terminal(req[h])
          /\ ~req[g].headOnly /\ req[h].headOnly
          /\ req[g].requestPath = req[h].requestPath
          /\ req[g].stable /\ req[h].stable )
            => /\ req[g].status = req[h].status
               /\ req[g].headers = req[h].headers
               /\ req[g].snapshotFile = req[h].snapshotFile
               /\ req[h].status = 200 => req[h].body = "null"
               /\ req[g].status = 200 => req[g].body = "file"

\* a GET and a HEAD of the same path were both answered 200
C9_Witness ==
    \E g \in DOMAIN req : \E h \in DOMAIN req :
        /\ req[g].pc = "done" /\ req[h].pc = "done"
        /\ ~req[g].headOnly /\ req[h].headOnly
        /\ req[g].requestPath = req[h].requestPath
        /\ req[g].stable /\ req[h].stable
        /\ req[g].status = 200 /\ req[h].status = 200

\* C10: every GET and HEAD request ends in a 200 or 404 response and never
\* in an exception, also when files are removed between the existence check
\* and the body read.
C10_NoException ==
    \A c \in DOMAIN req :
        /\ req[c].pc # "threw"
        /\ req[c].pc = "done" => req[c].status \in {200, 404}

\* the file a request path resolves to in the file set fs, Null when none
ResolvesTo(fs, p) ==
    IF IsRootPath(p) THEN FirstFile(fs, <<IndexHtml>>)
    ELSE FirstFile(fs, Fallback(NormalForm(p)))

\* the response of a request that runs alone against the file set fs
AloneResponse(fs, p, headOnly) ==
    LET file == ResolvesTo(fs, p)
    IN  IF file = Null
            THEN [snapshotFile |-> Null, status |-> 404,
                  headers |-> {<<"content-type", "text/plain;charset=UTF-8">>},
                  body |-> "Not Found"]
            ELSE [snapshotFile |-> file, status |-> 200,
                  headers |-> { <<"cache-control", "public, max-age=0">>,
                                <<"content-type", TypeOfFile(file)>> },
                  body |-> IF headOnly THEN "null" ELSE "file"]

ResponseOf(r) ==
    [snapshotFile |-> r.snapshotFile, status |-> r.status,
     headers |-> r.headers, body |-> r.body]

\* C11: the server keeps no state between requests: after any sequence of
\* mirror refreshes, a request that runs with no further refresh gets the
\* status, content type and resolved file of the mirror's file set at the
\* time of that request, never those of an earlier file set.
C11_ResponseOfCurrentMirror ==
    \A c \in DOMAIN req :
        LET r == req[c]
            file == ResolvesTo(files, r.requestPath)
        IN  (Terminal(r) /\ r.stable)
                => /\ r.snapshotFile = file
                   /\ r.status = IF file = Null THEN 404 ELSE 200
                   /\ file # Null => HeaderOf(r, "content-type") = TypeOfFile(file)

\* one request was answered 404 before a refresh, and a later request of
\* the same path is answered 200 from the refreshed mirror
C11_Witness ==
    \E c \in DOMAIN req : \E d \in DOMAIN req :
        /\ req[c].pc = "done" /\ ~req[c].stable /\ req[c].status = 404
        /\ req[d].pc = "done" /\ req[d].stable /\ req[d].status = 200
        /\ req[c].requestPath = req[d].requestPath

\* a step of the handler of client c (and not a mirror refresh)
HandlerStep(c) ==
    [req'[c] EXCEPT !.stable = TRUE] # [req[c] EXCEPT !.stable = TRUE]

C12_StepIsLocal ==
    \A c \in DOMAIN req :
        HandlerStep(c)
            => /\ files' = files
               /\ \A d \in DOMAIN req \ {c} : req'[d] = req[d]

C12_SameAsAlone ==
    \A c \in DOMAIN req :
        (Terminal(req[c]) /\ req[c].stable)
            => ResponseOf(req[c])
                   = AloneResponse(files, req[c].requestPath, req[c].headOnly)

\* C12: the Snapshot Resolver is stateless and side-effect-free: no step of
\* a GET or HEAD request changes the mirror's files or another request's
\* state, and under every interleaving of concurrent requests against an
\* unchanged mirror each request gets the response it gets when run alone.
C12_StatelessConcurrentReaders ==
    [][C12_StepIsLocal]_vars /\ []C12_SameAsAlone

\* two requests of different paths overlapped on an unchanged mirror; one
\* was answered 200 and the other one 404
C12_Witness ==
    \E c \in DOMAIN req : \E d \in DOMAIN req :
        /\ req[c].pc = "done" /\ req[c].stable /\ req[c].status = 200
        /\ req[d].pc = "done" /\ req[d].stable /\ req[d].status = 404
        /\ req[c].requestPath # req[d].requestPath

----------------------------------------------------------------------------
(* Properties of the mirroring run                                         *)

SameNormalized(u, v) ==
    u.scheme = v.scheme /\ u.host = v.host /\ u.path = v.path

Pending(u) == \E r \in frontier : r.url = u /\ r.status = "pending"
Settled(u) == \E r \in frontier : r.url = u /\ r.status # "pending"

\* every normalized URL a run can meet
UrlUniverse ==
    { Page(p) : p \in { PathRoot, PathA, PathB, PathC, PathPrivateX,
                        PathPrivateY, Path1, Path2, Path3, Path4, PathW,
                        PathX, PathZ } }

\* C13: after any number of discovery and crawl steps, in any order, no two
\* URLRecords of the Frontier share a normalized URL; URLs that differ only
\* in query or fragment are one record.
C13_UniqueNormalizedUrl ==
    \A r1 \in frontier : \A r2 \in frontier :
        SameNormalized(r1.url, r2.url) => r1 = r2

\* the start page, which links to /a#top and /b?ref, has been fetched while
\* /a and /b were already recorded from the sitemap
C13_Witness ==
    /\ site = "scenario"
    /\ \E r \in frontier : r.url = StartUrl /\ r.status = "fetched"
    /\ \E r \in frontier : r.url = Page(PathA)
    /\ \E r \in frontier : r.url = Page(PathB)

C14_RecordStep ==
    /\ \A r \in frontier :
          \E r2 \in frontier' :
              /\ r2.url = r.url
              /\ r.status # "pending"
                    => r2.status = r.status /\ r2.reason = r.reason
              /\ r2.status \in {"pending", "fetched", "failed"}
    /\ \A r2 \in frontier' :
          (\A r \in frontier : r.url # r2.url) => r2.status = "pending"

\* C14: every URLRecord changes status at most once, from pending to
\* fetched or to failed; a fetched or failed record never changes again, no
\* record returns to pending and no record is deleted.
C14_StatusSettlesOnce == [][C14_RecordStep]_vars

\* one record has been fetched and another one has failed
C14_Witness ==
    /\ \E r \in frontier : r.status = "fetched"
    /\ \E r \in frontier : r.status = "failed"

\* C15: in the Report of every run, also of one stopped by the global
\* timeout with URLs still unclaimed, discovered = fetched + failed, and the
\* counts are those of the recorded URLRecords.
C15_DiscoveredIsFetchedPlusFailed ==
    phase = "done"
        => /\ report = MakeReportOf(frontier)
           /\ report.discovered = report.fetched + report.failed

\* C16: a URL is claimed atomically: no two workers ever hold the same
\* normalized URL, and no URL is fetched by more than one worker in a run.
C16_AtomicClaim ==
    /\ \A w1 \in Workers : \A w2 \in Workers :
          (w1 # w2 /\ Busy(w1) /\ Busy(w2))
              => ~SameNormalized(worker[w1], worker[w2])
    /\ \A r \in frontier : r.fetches <= 1
    /\ \A r \in frontier : r.status # "pending" => r.fetches = 1

\* both workers are fetching
C16_Witness == phase = "crawl" /\ \A w \in Workers : Busy(w)

C17_NoClaimAfterTimeout ==
    timedOut => \A w \in Workers : Busy(w)' => worker'[w] = worker[w]

C17_FetchEndsSettled ==
    \A w \in Workers :
        (Busy(w) /\ ~Busy(w)') => \E r \in frontier' :
                                      r.url = worker[w] /\ r.status # "pending"

C17_ReportCountsSettled ==
    phase = "done"
        => /\ \A w \in Workers : ~Busy(w)
           /\ report.fetched = Count(frontier, "fetched")
           /\ report.failed = Count(frontier, "failed")
           /\ \A r \in frontier :
                 r.status = "failed" => <<r.url, r.reason>> \in report.failures

\* C17: once the global timeout has fired no worker claims a new Frontier
\* entry; the fetches in flight still run to a terminal outcome, and the
\* Report produced afterwards counts every URL that reached a terminal
\* status.
C17_TimeoutDrains ==
    /\ [][C17_NoClaimAfterTimeout /\ C17_FetchEndsSettled]_vars
    /\ []C17_ReportCountsSettled
    /\ \A w \in Workers : (timedOut /\ Busy(w)) ~> ~Busy(w)
    /\ timedOut ~> (phase = "done")

\* the timeout has fired while a fetch is in flight and records are
\* still unclaimed
C17_Witness ==
    /\ timedOut
    /\ \E w \in Workers : Busy(w)
    /\ Claimable # {}

\* the step settles the fetch of worker w as failed
FailureStep(w) ==
    /\ Busy(w)
    /\ \E r \in frontier' : r.url = worker[w] /\ r.status = "failed"

C18_FailureIsLocal ==
    \A w \in Workers :
        FailureStep(w)
            => /\ \A r \in frontier :
                     r.url # worker[w] => r \in frontier'
               /\ \A r2 \in frontier' : \E r \in frontier : r.url = r2.url
               /\ \E r2 \in frontier' :
                     /\ r2.url = worker[w]
                     /\ r2.reason \in FailureReasons
               /\ \A v \in Workers \ {w} : worker'[v] = worker[v]
               /\ phase' = phase /\ timedOut' = timedOut

\* C18: a fetch failure of any class only sets that URL's status to failed
\* with its reason: it changes no other URLRecord, and every other pending
\* URL is still claimed and settled, unless the global timeout stops the
\* claiming.
C18_FailureDoesNotBlock ==
    /\ [][C18_FailureIsLocal]_vars
    /\ \A u \in UrlUniverse : Pending(u) ~> (Settled(u) \/ timedOut)

\* a fetch has failed and a worker is fetching another URL
C18_Witness ==
    /\ \E r \in frontier : r.status = "failed"
    /\ \E w \in Workers : Busy(w)

\* C19: no URL whose path the robots directives disallow ever enters the
\* Frontier, from the sitemap or from a link; with seed /, sitemap {/a, /b},
\* /private/ disallowed and /a linking to /c and /private/x, a run in which
\* every fetch succeeds ends with the fetched set {/, /a, /b, /c}.
C19_RobotsExclusion ==
    /\ \A r \in frontier :
          \A d \in RobotsDisallow(site) : ~StartsWith(r.url.path, d)
    /\ (site = "scenario" /\ phase = "done" /\ ~timedOut /\ report.failed = 0)
          => { r.url : r \in { x \in frontier : x.status = "fetched" } }
                 = { Page(PathRoot), Page(PathA), Page(PathB), Page(PathC) }

\* the scenario run has ended with four fetched URLs
C19_Witness ==
    /\ site = "scenario" /\ phase = "done" /\ ~timedOut
    /\ report.fetched = 4 /\ report.failed = 0

C20_WithinBounds ==
    /\ Cardinality(frontier) <= MaxUrls
    /\ \A r \in frontier : r.depth <= MaxDepth
    /\ (phase = "done" /\ ~timedOut)
          => \A r \in frontier : r.status # "pending"

----------------------------------------------------------------------------
(* Equivalent request paths                                                *)

\* the loop of resolveSnapshotFile over a file set that does not change
RECURSIVE FirstExisting(_, _)
FirstExisting(fs, probes) ==
    IF probes = <<>> THEN Null
    ELSE IF exists(fs, Head(probes)) THEN Head(probes)
    ELSE FirstExisting(fs, Tail(probes))

resolveSnapshotFile(fs, requestPath) == FirstExisting(fs, Probes(requestPath))

\* p with every slash doubled
RECURSIVE DoubleSlashes(_)
DoubleSlashes(p) ==
    IF p = <<>> THEN <<>>
    ELSE IF Head(p) = SLASH THEN <<SLASH, SLASH>> \o DoubleSlashes(Tail(p))
    ELSE <<Head(p)>> \o DoubleSlashes(Tail(p))

\* C23: request paths that differ only by a trailing slash or by repeated
\* slashes resolve identically: for every path p and every mirror, the file
\* resolved for p is the one resolved for p + "/" and for p with its slashes
\* doubled, or all three are unresolved.
C23_SlashVariantsResolveAlike ==
    \A c \in DOMAIN req :
        LET r == req[c]
            p == r.requestPath
        IN  (Terminal(r) /\ r.stable)
                => /\ r.snapshotFile
                         = resolveSnapshotFile(files, p \o <<SLASH>>)
                   /\ r.snapshotFile
                         = resolveSnapshotFile(files, DoubleSlashes(p))
                   /\ r.snapshotFile
                         = resolveSnapshotFile(files, <<SLASH>> \o p)

\* "a/b" has resolved to a/b.html while a/b/index.html exists too
C23_Witness ==
    \E c \in DOMAIN req :
        /\ Terminal(req[c]) /\ req[c].stable
        /\ req[c].requestPath = P_ab
        /\ req[c].snapshotFile = F_abHtml
        /\ F_abIndex \in files

----------------------------------------------------------------------------
(* The Localizer, as the design describes it, and the serving route on the *)
(* localized mirror                                                        *)

\* number of Localizer runs over the file
MaxPasses == 2

\* --primary-host
PrimaryHost == SubSeq(RoutePrefix, 2, Len(RoutePrefix))

\* "https://" + primary host
InternalPrefix == <<"h","t","t","p","s",":","/","/">> \o PrimaryHost

L_ab == InternalPrefix \o <<"/","a","/","b">>
L_abSlash == InternalPrefix \o <<"/","a","/","b","/">>
L_root == InternalPrefix \o <<SLASH>>
L_host == InternalPrefix
L_b == InternalPrefix \o <<"/","b">>
L_external == <<"h","t","t","p","s",":","/","/","o","t","h","e","r",".","o","r","g","/","a","/","b">>
L_lookalike == InternalPrefix \o <<".","a","/","a","/","b">>
L_local == RoutePrefix \o <<"/","a","/","b">>

\* hyperlink targets of a fetched page
LinkPool ==
    { L_ab, L_abSlash, L_root, L_host, L_b, L_external, L_lookalike, L_local }

\* a fetched HTML file, by the targets of its links in document order
DocLen == 2
Docs == [1..DocLen -> LinkPool]

\* the mirrors a Localizer run may find
Mirrors ==
    { OutsideFiles \cup m : m \in { x \in SUBSET PairFiles : Consistent(x) } }

\* an absolute link to the primary host
IsInternal(link) ==
    /\ StartsWith(link, InternalPrefix)
    /\ \/ Len(link) = Len(InternalPrefix)
       \/ link[Len(InternalPrefix) + 1] = SLASH

\* the path of an internal absolute link
UrlPath(link) == SubSeq(link, Len(InternalPrefix) + 1, Len(link))

\* the candidate-resolution rule of the Snapshot Resolver, asked whether a
\* path resolves
Resolvable(fs, path) == ResolvesTo(fs, path) # Null

\* rewrite that prefixes every root-relative link too
LocalizeLink_PrefixRootRelative(fs, link) ==
    IF IsInternal(link) /\ Resolvable(fs, UrlPath(link))
        THEN RoutePrefix \o UrlPath(link)
    ELSE IF link # <<>> /\ Head(link) = SLASH THEN RoutePrefix \o link
    ELSE link

\* an internal absolute link whose target resolves becomes a path below the
\* route of the mirror; any other link is left as it is
LocalizeLink(fs, link) ==
    IF IsInternal(link) /\ Resolvable(fs, UrlPath(link))
        THEN RoutePrefix \o UrlPath(link)
        ELSE link

LocalizeFile(fs, doc) == [i \in DOMAIN doc |-> LocalizeLink(fs, doc[i])]

RouteIdle ==
    /\ files \in Mirrors
    /\ req = [c \in Clients |-> IdleReq]

InitLocalize ==
    /\ RouteIdle
    /\ CrawlOff
    /\ fetched \in Docs
    /\ html = fetched
    /\ previous = fetched
    /\ passes = 0
    /\ ConsentOff
    /\ ScriptsOff

\* one run of the Localizer over the file, in place
Localize ==
    /\ passes < MaxPasses
    /\ previous' = html
    /\ html' = LocalizeFile(files, html)
    /\ passes' = passes + 1
    /\ UNCHANGED <<routeVars, crawlVars, fetched, besideLoc>>

\* a browser follows the i-th link of the localized page, one the Localizer
\* has written
Follow(c, i) ==
    /\ passes >= 1
    /\ html[i] # fetched[i]
    /\ GET(c, html[i])

NextLocalize ==
    \/ Localize
    \/ \E c \in Clients : \E i \in 1..DocLen : Follow(c, i)
    \/ \E c \in Clients : StatDone(c)
    \/ \E c \in Clients : ReadDone(c)
    \/ \E c \in Clients : Return(c)

SpecLocalize == InitLocalize /\ [][NextLocalize]_vars

\* C21: the Localizer is idempotent: a second run over an already localized
\* HTML file leaves it identical, localize(localize(x)) = localize(x).
C21_LocalizeIdempotent == passes >= 2 => html = previous

\* the file has been localized twice and the first run rewrote a link
C21_Witness == passes = 2 /\ html # fetched

\* C22: writer and reader agree: every link target the Localizer has written
\* resolves to an existing mirror file when it is requested from the serving
\* route on the same mirror, and an internal link whose target the route's
\* resolver does not resolve is left as its original absolute link.
C22_WriterReaderAgree ==
    /\ \A c \in DOMAIN req :
          Terminal(req[c])
              => /\ req[c].pc = "done"
                 /\ req[c].status = 200
                 /\ req[c].snapshotFile \in files
    /\ passes >= 1
          => \A i \in DOMAIN html :
                (/\ IsInternal(fetched[i])
                 /\ resolveSnapshotFile(files,
                        getRequestPath(RoutePrefix \o UrlPath(fetched[i])))
                      = Null)
                    => html[i] = fetched[i]

\* a written link has been served while another internal link of the page
\* was left absolute
C22_Witness ==
    /\ \E c \in DOMAIN req : Terminal(req[c]) /\ req[c].status = 200
    /\ \E i \in DOMAIN html : IsInternal(html[i]) /\ html[i] = fetched[i]

----------------------------------------------------------------------------
(* The privacy banner script: cookies, consent preferences, script loading *)

CONSENT_PREFERENCES_COOKIE_KEY ==
    <<"a","n","t","h","r","o","p","i","c","-","c","o","n","s","e","n","t","-","p","r","e","f","e","r","e","n","c","e","s">>

EXPLICIT_CONSENT_COUNTRIES ==
    { "AT", "BE", "BG", "HR", "CY", "CZ", "DK", "EE", "FI", "FR", "DE",
      "GR", "HU", "IE", "IT", "LV", "LT", "LU", "MT", "NL", "PL", "PT",
      "RO", "SK", "SI", "ES", "SE", "RE", "GP", "MQ", "GF", "YT", "BL",
      "MF", "PM", "WF", "PF", "NC", "AW", "CW", "SX", "FO", "GL", "AX",
      "GB", "UK", "AI", "BM", "IO", "VG", "KY", "FK", "GI", "MS", "PN",
      "SH", "TC", "GG", "JE", "IM", "CA", "BR", "IN" }

AnalyticsCookies ==
    { <<"a","j","s","_","a","n","o","n","y","m","o","u","s","_","i","d">>,
      <<"a","j","s","_","u","s","e","r","_","i","d">>,
      <<"a","j","s","_","g","r","o","u","p","_","i","d">>,
      <<"a","n","a","l","y","t","i","c","s","_","s","e","s","s","i","o","n","_","i","d">>,
      <<"_","g","a">>, <<"_","g","i","d">>, <<"_","g","a","t">>,
      <<"_","_","u","t","m","a">>, <<"_","_","u","t","m","b">>,
      <<"_","_","u","t","m","c">>, <<"_","_","u","t","m","t">>,
      <<"_","_","u","t","m","z">>, <<"_","_","u","t","m","v">>,
      <<"_","g","a","e","x","p">>, <<"_","g","a","e","x","p","_","r","c">>,
      <<"_","o","p","t","_","e","x","p","i","d">>,
      <<"A","M","P","_","T","O","K","E","N">>, <<"F","P","I","D">>,
      <<"F","P","L","C">>,
      <<"T","E","S","T","C","O","O","K","I","E","S","E","N","A","B","L","E","D">>,
      <<"l","i","_","g","i","a","n","t">>, <<"l","n","_","o","r">>,
      <<"o","r","i","b","i","_","c","o","o","k","i","e","_","t","e","s","t">>,
      <<"o","r","i","b","i","l","i","_","u","s","e","r","_","g","u","i","d">> }

MarketingCookies ==
    { <<"_","f","b","c">>, <<"_","f","b","p">>,
      <<"_","_","g","a","d","s">>, <<"_","_","g","p","i">>,
      <<"_","_","g","p","i","_","o","p","t","o","u","t">>,
      <<"_","_","g","s","a","s">>, <<"_","g","c","l","_","a","w">>,
      <<"_","g","c","l","_","d","c">>, <<"_","g","c","l","_","a","u">>,
      <<"_","g","c","l","_","g","b">>, <<"_","g","c","l","_","g","f">>,
      <<"_","g","c","l","_","h","a">>, <<"_","g","c","l","_","g","s">>,
      <<"_","g","c","l","_","a","g">>, <<"G","C","L","_","A","W","_","P">>,
      <<"G","E","D","_","P","L","A","Y","L","I","S","T","_","A","C","T","I","V","I","T","Y">>,
      <<"A","C","L","K","_","D","A","T","A">>, <<"F","L","C">>,
      <<"_","o","p","t","_","a","w","c","i","d">>,
      <<"_","o","p","t","_","a","w","m","i","d">>,
      <<"_","o","p","t","_","a","w","g","i","d">>,
      <<"_","o","p","t","_","a","w","k","i","d">>,
      <<"_","o","p","t","_","u","t","m","c">>, <<"F","P","A","U">>,
      <<"F","P","G","C","L","D","C">>, <<"F","P","G","C","L","A","W">>,
      <<"F","P","G","C","L","G","B">>, <<"F","P","G","S","I","D">>,
      <<"F","C","C","D","C","F">>, <<"F","C","N","E","C">>,
      <<"l","i","_","f","a","t","_","i","d">>,
      <<"a","r","_","d","e","b","u","g">>, <<"_","t","t","c","l","i","d">>,
      <<"_","r","d","t","_","u","u","i","d">> }

COOKIES_PER_CONSENT_CATEGORY(category) ==
    IF category = "analytics" THEN AnalyticsCookies ELSE MarketingCookies

\* the patterns /^prefix.*$/, by their prefix
COOKIE_PATTERNS_TO_DELETE(category) ==
    IF category = "analytics"
        THEN { <<"_","g","a","t","_","g","t","a","g","_","U","A","_">>,
               <<"_","g","a","_">>,
               <<"_","d","c","_","g","t","m","_">> }
        ELSE { <<"_","g","a","c","_">>,
               <<"_","g","a","c","_","g","b","_">> }

Categories == {"analytics", "marketing"}

Prefs == [analytics : BOOLEAN, marketing : BOOLEAN]

DenyAll == [analytics |-> FALSE, marketing |-> FALSE]

\* the value undefined, which no character string equals
Undefined == <<"undefined">>

\* characters that encodeURIComponent escapes, with their two hex digits
PercentCodes ==
    { <<"{", <<"7","B">>>>, <<"}", <<"7","D">>>>, <<"\"", <<"2","2">>>>,
      <<":", <<"3","A">>>>, <<",", <<"2","C">>>>, <<"=", <<"3","D">>>>,
      <<";", <<"3","B">>>>, <<"%", <<"2","5">>>>, <<" ", <<"2","0">>>> }

RECURSIVE encodeURIComponent(_)
encodeURIComponent(str) ==
    IF str = <<>> THEN <<>>
    ELSE LET ch == Head(str)
         IN  (IF \E pc \in PercentCodes : pc[1] = ch
                  THEN <<"%">> \o (CHOOSE pc \in PercentCodes : pc[1] = ch)[2]
                  ELSE <<ch>>)
             \o encodeURIComponent(Tail(str))

\* escapes outside PercentCodes do not occur in the cookies of the model
RECURSIVE decodeURIComponent(_)
decodeURIComponent(str) ==
    IF str = <<>> THEN <<>>
    ELSE IF Head(str) = "%" /\ Len(str) >= 3
              /\ \E pc \in PercentCodes : pc[2] = SubSeq(str, 2, 3)
        THEN <<(CHOOSE pc \in PercentCodes : pc[2] = SubSeq(str, 2, 3))[1]>>
             \o decodeURIComponent(SubSeq(str, 4, Len(str)))
    ELSE <<Head(str)>> \o decodeURIComponent(Tail(str))

JsonBool(b) == IF b THEN <<"t","r","u","e">> ELSE <<"f","a","l","s","e">>

\* JSON.stringify({ analytics, marketing })
JSON_stringify(preferences) ==
    <<"{","\"","a","n","a","l","y","t","i","c","s","\"",":">>
        \o JsonBool(preferences.analytics)
        \o <<",","\"","m","a","r","k","e","t","i","n","g","\"",":">>
        \o JsonBool(preferences.marketing) \o <<"}">>

\* JSON.parse of a cookie value: the preferences, or a SyntaxError
JSON_parse(text) ==
    IF \E q \in Prefs : JSON_stringify(q) = text
        THEN [ok |-> TRUE,
              value |-> CHOOSE q \in Prefs : JSON_stringify(q) = text]
        ELSE [ok |-> FALSE, value |-> DenyAll]

\* the part of a "key=value" cookie that split('=') puts in value
RECURSIVE ValueField(_)
ValueField(raw) ==
    IF raw = <<>> \/ Head(raw) = "=" THEN <<>>
    ELSE <<Head(raw)>> \o ValueField(Tail(raw))

\* document.cookie is modelled by the jar: the set of <<name, value>> pairs
\* visible to the page, one per name

\* cookieUtils.get without decodeURIComponent
cookieUtils_get_NoDecode(jar, name) ==
    IF \E c \in jar : c[1] = name
        THEN ValueField((CHOOSE c \in jar : c[1] = name)[2])
        ELSE Undefined

cookieUtils_get(jar, name) ==
    IF \E c \in jar : c[1] = name
        THEN decodeURIComponent(
                 ValueField((CHOOSE c \in jar : c[1] = name)[2]))
        ELSE Undefined

cookieUtils_set(jar, name, value) ==
    { c \in jar : c[1] # name } \cup {<<name, encodeURIComponent(value)>>}

cookieUtils_has(jar, name) == \E c \in jar : c[1] = name

cookieUtils_delete(jar, name) == { c \in jar : c[1] # name }

getAllCookieNames(jar) == { c[1] : c \in jar }

matchesCookiePattern(cookieName, pattern) == StartsWith(cookieName, pattern)

deleteCookiesForCategory(jar, category) ==
    LET allCookieNames == getAllCookieNames(jar)
        named == COOKIES_PER_CONSENT_CATEGORY(category)
        matched == { n \in allCookieNames :
                       \E pattern \in COOKIE_PATTERNS_TO_DELETE(category) :
                           matchesCookiePattern(n, pattern) }
    IN  { c \in jar : c[1] \notin named \cup matched }

\* navigator.language is modelled by its subtags: "en-GB" is <<"en", "GB">>
fallbackLanguageDetection(b) ==
    Len(b.language) >= 2 /\ b.language[2] \in EXPLICIT_CONSENT_COUNTRIES

\* apiUp: the fetch of /api/country answered with a country string
inExplicitConsentRequiredCountry(b, apiUp) ==
    IF apiUp /\ b.country # ""
        THEN b.country \in EXPLICIT_CONSENT_COUNTRIES
        ELSE fallbackLanguageDetection(b)

isGlobalPrivacyControlEnabled(b) == b.gpc

\* lines 339-342 of getInitialConsentPreferences
DefaultPreferences(requiresExplicitConsent) ==
    [analytics |-> ~requiresExplicitConsent,
     marketing |-> ~requiresExplicitConsent]

\* the consent cookie read first, Global Privacy Control ignored
StoredOrGpc_CookieFirst(b) ==
    LET cookie == cookieUtils_get(b.jar, CONSENT_PREFERENCES_COOKIE_KEY)
    IN  IF cookie # Undefined /\ cookie # <<>> /\ JSON_parse(cookie).ok
            THEN [known |-> TRUE, value |-> JSON_parse(cookie).value,
                  jar |-> b.jar]
        ELSE IF isGlobalPrivacyControlEnabled(b)
            THEN [known |-> TRUE, value |-> DenyAll,
                  jar |-> deleteCookiesForCategory(
                              deleteCookiesForCategory(b.jar, "analytics"),
                              "marketing")]
        ELSE [known |-> FALSE, value |-> DenyAll, jar |-> b.jar]

\* getInitialConsentPreferences up to its await: the preferences when Global
\* Privacy Control or the consent cookie decides them, and the jar it leaves
StoredOrGpc(b) ==
    IF isGlobalPrivacyControlEnabled(b)
        THEN [known |-> TRUE, value |-> DenyAll,
              jar |-> deleteCookiesForCategory(
                          deleteCookiesForCategory(b.jar, "analytics"),
                          "marketing")]
    ELSE LET cookie == cookieUtils_get(b.jar, CONSENT_PREFERENCES_COOKIE_KEY)
         IN  IF cookie # Undefined /\ cookie # <<>> /\ JSON_parse(cookie).ok
                 THEN [known |-> TRUE, value |-> JSON_parse(cookie).value,
                       jar |-> b.jar]
                 ELSE [known |-> FALSE, value |-> DenyAll, jar |-> b.jar]

\* close timers of hideBanner that may be pending at once
MaxTimers == 2

\* cookies the loaded scripts set: Google Tag Manager's tags and Segment
GtmCookies ==
    { <<"_","g","a","_","X">>, <<"_","f","b","p">> }

SegmentCookies == { <<"a","j","s","_","a","n","o","n","y","m","o","u","s","_","i","d">> }

\* visitors: the country the API reports and the browser language
Visitors ==
    { [country |-> "DE", language |-> <<"en", "US">>],
      [country |-> "US", language |-> <<"en", "GB">>],
      [country |-> "US", language |-> <<"en">>] }

\* cookie jars of a first visit; the last one holds a consent cookie that is
\* not JSON
InitialJars ==
    { {},
      { <<CONSENT_PREFERENCES_COOKIE_KEY, <<"x">>>> } }

\* browser: gpc (navigator.globalPrivacyControl), country, language, jar
\* page: the document the script runs in
\*   pc           "unloaded", "prefs" (DOMContentLoaded handler awaiting the
\*                country in getInitialConsentPreferences), "banner" (awaiting
\*                the country before showBanner) or "ready" (listeners set)
\*   initialPrefs initialPreferences of the handler
\*   hadCookie    the consent cookie existed when the handler started
\*   detected     result of the handler's first country detection, if any
\*   gtm, segment the script element of the tool has been inserted
\*   dialogOpen   the consent dialog is open
\*   closeTimers  pending setTimeout(() => dialog.close(), 300)
\*   view         "simple" or "detailed" options
\*   toggles      the two checkboxes of the detailed options
\*   customPc     promise of showDetailedOptions: "none", "country", "then"
\*   autoShown    the handler has called showBanner
\*   lastBanner   the banner function called last: "show", "hide" or "none"
\* consentLog: saved (the preferences last saved, if any), savedAtLoad (saved
\*   when the page load began), saves (parity of the number of saves)
UnloadedPage ==
    [pc |-> "unloaded", initialPrefs |-> DenyAll, hadCookie |-> FALSE,
     detected |-> {}, gtm |-> FALSE, segment |-> FALSE, dialogOpen |-> FALSE,
     closeTimers |-> 0, view |-> "simple", toggles |-> DenyAll,
     customPc |-> "none", customPrefs |-> DenyAll, autoShown |-> FALSE,
     lastBanner |-> "none"]

InitConsent ==
    /\ files = InitialFiles
    /\ req = [c \in Clients |-> IdleReq]
    /\ CrawlOff
    /\ LocOff
    /\ ScriptsOff
    /\ browser \in { [gpc |-> g, country |-> v.country,
                      language |-> v.language, jar |-> j] :
                        g \in BOOLEAN, v \in Visitors, j \in InitialJars }
    /\ page = UnloadedPage
    /\ consentLog = [saved |-> {}, savedAtLoad |-> {}, saves |-> 0]

\* showBanner
ShowBannerOn(pg) ==
    [pg EXCEPT !.dialogOpen = TRUE, !.view = "simple", !.lastBanner = "show"]

\* hideBanner
HideBannerOn(pg) ==
    [pg EXCEPT !.closeTimers = @ + 1, !.lastBanner = "hide"]

\* the handler with Google Tag Manager loaded whatever the preferences
AfterPreferences_AlwaysGtm(pg, prefs, b) ==
    LET loaded == [pg EXCEPT !.initialPrefs = prefs,
                             !.gtm = TRUE,
                             !.segment = prefs.analytics]
    IN  IF /\ ~cookieUtils_has(b.jar, CONSENT_PREFERENCES_COOKIE_KEY)
           /\ ~isGlobalPrivacyControlEnabled(b)
            THEN [loaded EXCEPT !.pc = "banner"]
            ELSE [loaded EXCEPT !.pc = "ready"]

\* the DOMContentLoaded handler from initialPreferences on, up to its await
\* or its end: consent defaults, script loading, the check for the banner
AfterPreferences(pg, prefs, b) ==
    LET loaded == [pg EXCEPT !.initialPrefs = prefs,
                             !.gtm = prefs.marketing,
                             !.segment = prefs.analytics]
    IN  IF /\ ~cookieUtils_has(b.jar, CONSENT_PREFERENCES_COOKIE_KEY)
           /\ ~isGlobalPrivacyControlEnabled(b)
            THEN [loaded EXCEPT !.pc = "banner"]
            ELSE [loaded EXCEPT !.pc = "ready"]

\* DOMContentLoaded: the handler starts
DOMContentLoaded ==
    /\ page.pc = "unloaded"
    /\ LET r == StoredOrGpc(browser)
           b == [browser EXCEPT !.jar = r.jar]
           pg == [page EXCEPT !.hadCookie =
                     cookieUtils_has(browser.jar,
                                     CONSENT_PREFERENCES_COOKIE_KEY)]
       IN  /\ browser' = b
           /\ page' = IF r.known THEN AfterPreferences(pg, r.value, b)
                      ELSE [pg EXCEPT !.pc = "prefs"]
    /\ consentLog' = [consentLog EXCEPT !.savedAtLoad = consentLog.saved]
    /\ UNCHANGED besideConsent

\* inExplicitConsentRequiredCountry settles in getInitialConsentPreferences
CountryForPreferences(apiUp) ==
    /\ page.pc = "prefs"
    /\ LET explicit == inExplicitConsentRequiredCountry(browser, apiUp)
       IN  page' = AfterPreferences([page EXCEPT !.detected = {explicit}],
                                    DefaultPreferences(explicit), browser)
    /\ UNCHANGED <<browser, consentLog, besideConsent>>

\* inExplicitConsentRequiredCountry settles before showBanner
CountryForBanner(apiUp) ==
    /\ page.pc = "banner"
    /\ LET explicit == inExplicitConsentRequiredCountry(browser, apiUp)
           pg == [page EXCEPT !.pc = "ready"]
       IN  page' = IF explicit
                       THEN [ShowBannerOn(pg) EXCEPT !.autoShown = TRUE]
                       ELSE pg
    /\ UNCHANGED <<browser, consentLog, besideConsent>>

saveConsentPreferences(preferences) ==
    /\ page.pc = "ready"
    /\ page.closeTimers < MaxTimers
    /\ LET written == cookieUtils_set(browser.jar,
                                      CONSENT_PREFERENCES_COOKIE_KEY,
                                      JSON_stringify(preferences))
           analyticsDone == IF preferences.analytics THEN written
                            ELSE deleteCookiesForCategory(written,
                                                          "analytics")
           marketingDone == IF preferences.marketing THEN analyticsDone
                            ELSE deleteCookiesForCategory(analyticsDone,
                                                          "marketing")
       IN  browser' = [browser EXCEPT !.jar = marketingDone]
    /\ page' = HideBannerOn(page)
    /\ consentLog' = [consentLog EXCEPT !.saved = {preferences},
                                        !.saves = 1 - @]
    /\ UNCHANGED besideConsent

\* click on accept-btn
Accept ==
    /\ page.dialogOpen
    /\ saveConsentPreferences([analytics |-> TRUE, marketing |-> TRUE])

\* click on reject-btn
Reject ==
    /\ page.dialogOpen
    /\ saveConsentPreferences(DenyAll)

\* click on save-preferences-btn
SavePreferences ==
    /\ page.dialogOpen
    /\ page.view = "detailed"
    /\ saveConsentPreferences(page.toggles)

\* click on customize-btn: showDetailedOptions
Customize ==
    /\ page.pc = "ready"
    /\ page.dialogOpen
    /\ page.view = "simple"
    /\ page.customPc = "none"
    /\ LET r == StoredOrGpc(browser)
       IN  /\ browser' = [browser EXCEPT !.jar = r.jar]
           /\ page' = [page EXCEPT
                         !.view = "detailed",
                         !.customPc = IF r.known THEN "then" ELSE "country",
                         !.customPrefs = r.value]
    /\ UNCHANGED <<consentLog, besideConsent>>

CustomizeCountry(apiUp) ==
    /\ page.customPc = "country"
    /\ page' = [page EXCEPT
                  !.customPc = "then",
                  !.customPrefs = DefaultPreferences(
                      inExplicitConsentRequiredCountry(browser, apiUp))]
    /\ UNCHANGED <<browser, consentLog, besideConsent>>

\* the then-callback of showDetailedOptions: updateToggleStatus, twice
CustomizeThen ==
    /\ page.customPc = "then"
    /\ page' = [page EXCEPT !.customPc = "none",
                            !.toggles = page.customPrefs,
                            !.customPrefs = DenyAll]
    /\ UNCHANGED <<browser, consentLog, besideConsent>>

\* the visitor changes a checkbox of the detailed options
Toggle(category) ==
    /\ page.pc = "ready"
    /\ page.dialogOpen
    /\ page.view = "detailed"
    /\ page' = [page EXCEPT !.toggles[category] = ~@]
    /\ UNCHANGED <<browser, consentLog, besideConsent>>

\* click on privacy-choices-btn
PrivacyChoices ==
    /\ page.pc = "ready"
    /\ page' = ShowBannerOn(page)
    /\ UNCHANGED <<browser, consentLog, besideConsent>>

\* keydown Escape
Escape ==
    /\ page.pc = "ready"
    /\ page.dialogOpen
    /\ page.closeTimers < MaxTimers
    /\ page' = HideBannerOn(page)
    /\ UNCHANGED <<browser, consentLog, besideConsent>>

\* a close timer of hideBanner fires: dialog.close()
CloseTimer ==
    /\ page.closeTimers > 0
    /\ page' = [page EXCEPT !.closeTimers = @ - 1, !.dialogOpen = FALSE]
    /\ UNCHANGED <<browser, consentLog, besideConsent>>

\* a loaded script sets one of its cookies
TrackerSetsCookie(name) ==
    /\ \/ page.gtm /\ name \in GtmCookies
       \/ page.segment /\ name \in SegmentCookies
    /\ ~cookieUtils_has(browser.jar, name)
    /\ browser' = [browser EXCEPT !.jar = @ \cup {<<name, <<"1">>>>}]
    /\ UNCHANGED <<page, consentLog, besideConsent>>

\* the visitor leaves the page
Unload ==
    /\ page.pc # "unloaded"
    /\ page' = UnloadedPage
    /\ UNCHANGED <<browser, consentLog, besideConsent>>

\* the visitor switches Global Privacy Control between two page loads
SetGpc ==
    /\ page.pc = "unloaded"
    /\ browser' = [browser EXCEPT !.gpc = ~@]
    /\ UNCHANGED <<page, consentLog, besideConsent>>

NextConsent ==
    \/ DOMContentLoaded
    \/ \E apiUp \in BOOLEAN : CountryForPreferences(apiUp)
    \/ \E apiUp \in BOOLEAN : CountryForBanner(apiUp)
    \/ Accept
    \/ Reject
    \/ SavePreferences
    \/ Customize
    \/ \E apiUp \in BOOLEAN : CustomizeCountry(apiUp)
    \/ CustomizeThen
    \/ \E category \in Categories : Toggle(category)
    \/ PrivacyChoices
    \/ Escape
    \/ CloseTimer
    \/ \E name \in GtmCookies \cup SegmentCookies : TrackerSetsCookie(name)
    \/ Unload
    \/ SetGpc

SpecConsent == InitConsent /\ [][NextConsent]_vars

\* the page's handler has computed initialPreferences
PrefsKnown == page.pc \in {"banner", "ready"}

GrantAll == [analytics |-> TRUE, marketing |-> TRUE]

\* C24: Global Privacy Control takes precedence: whenever it is on, the
\* initial consent preferences of a page load are analytics = false and
\* marketing = false whatever the consent cookie and the country, neither
\* Google Tag Manager nor Segment is loaded on that page and the banner is
\* not shown automatically.
C24_GpcTakesPrecedence ==
    (browser.gpc /\ page.pc # "unloaded")
        => /\ page.pc = "ready"
           /\ page.initialPrefs = DenyAll
           /\ ~page.gtm /\ ~page.segment
           /\ ~page.autoShown

\* a page has loaded under Global Privacy Control although the consent
\* cookie grants everything
C24_Witness ==
    /\ browser.gpc /\ page.pc = "ready"
    /\ cookieUtils_get(browser.jar, CONSENT_PREFERENCES_COOKIE_KEY)
          = JSON_stringify(GrantAll)
    /\ browser.country = "US"

C25_LoadedOnlyWithConsent ==
    /\ page.gtm => (PrefsKnown /\ page.initialPrefs.marketing)
    /\ page.segment => (PrefsKnown /\ page.initialPrefs.analytics)
    /\ (PrefsKnown /\ page.detected = {TRUE})
          => ~page.gtm /\ ~page.segment

C25_NoInjectionAfterLoad ==
    (page.pc = "ready" /\ page'.pc = "ready")
        => page'.gtm = page.gtm /\ page'.segment = page.segment

\* C25: on every page load Google Tag Manager is injected only if the
\* initial marketing preference is true and Segment only if the initial
\* analytics preference is true; a visitor detected in an explicit-consent
\* country with no consent cookie gets neither, and an Accept during the
\* visit injects nothing before the next page load.
C25_ScriptsGatedByInitialPreferences ==
    []C25_LoadedOnlyWithConsent /\ [][C25_NoInjectionAfterLoad]_vars

\* a visitor of an explicit-consent country, without cookie, has accepted
\* everything on this page and no script is loaded
C25_Witness ==
    /\ page.pc = "ready" /\ page.detected = {TRUE} /\ ~page.hadCookie
    /\ consentLog.saved = {GrantAll} /\ consentLog.savedAtLoad = {}
    /\ ~page.gtm /\ ~page.segment

C26_NextLoadReadsSaved ==
    (page.pc # "unloaded" /\ ~browser.gpc /\ consentLog.savedAtLoad # {})
        => /\ page.pc = "ready"
           /\ {page.initialPrefs} = consentLog.savedAtLoad
           /\ page.gtm = page.initialPrefs.marketing
           /\ page.segment = page.initialPrefs.analytics
           /\ ~page.autoShown

C26_SaveDeletesRejected ==
    consentLog'.saves # consentLog.saves
        => \A p \in consentLog'.saved : \A category \in Categories :
              ~p[category]
                  => \A c \in browser'.jar :
                        c[1] \notin COOKIES_PER_CONSENT_CATEGORY(category)

\* C26: saved consent round-trips: after saveConsentPreferences(p), with
\* Global Privacy Control off, the next page load reads initial preferences
\* equal to p, loads the scripts accordingly and does not show the banner
\* automatically; the save has deleted the named cookies of every category
\* that p rejects.
C26_SavedConsentRoundTrips ==
    []C26_NextLoadReadsSaved /\ [][C26_SaveDeletesRejected]_vars

\* a page has loaded with analytics only, as saved on the page before, for
\* a visitor whose country default is to deny both
C26_Witness ==
    /\ page.pc = "ready" /\ ~browser.gpc
    /\ consentLog.savedAtLoad = {[analytics |-> TRUE, marketing |-> FALSE]}
    /\ page.segment /\ ~page.gtm
    /\ browser.country = "DE"

----------------------------------------------------------------------------
(* Sticky URL parameters (src/unnamed/part_002, the parameter tracker).     *)
(* tracker.observers[k] says whether the k-th MutationObserver made by      *)
(* setupObserver is connected, tracker.observer is the script's one         *)
(* `observer` variable (0: undefined or null), tracker.timers the pending   *)
(* maxObserverTime timers in the order they were set: all have the same     *)
(* delay, so they fire in that order. tracker.debounce holds the observers  *)
(* whose debounced update is pending, tracker.links says for each link of   *)
(* the page whether its href carries the stored parameters.                 *)

\* runs of init on one page
MaxInits == 3

\* links on one page
MaxLinks == 2

Connected(t) == {k \in DOMAIN t.observers : t.observers[k]}

\* utils.storeTrackingParams(utils.getTrackingParams()) on a URL that has
\* parameters to track (hasParams) or has none
storeTrackingParams(t, hasParams) ==
    IF hasParams THEN [t EXCEPT !.stored = TRUE] ELSE t

\* updateLinks: with stored parameters every link gets them, with none the
\* links are left alone
updateLinks(t) ==
    IF ~t.stored THEN t
    ELSE [t EXCEPT !.links = [i \in DOMAIN t.links |-> TRUE]]

\* setupObserver: a new connected observer is assigned to `observer`, and a
\* timer is set; the observer `observer` held before stays connected
setupObserver(t) ==
    LET k == Len(t.observers) + 1
    IN  [t EXCEPT !.observers = Append(@, TRUE),
                  !.observer = k,
                  !.timers = Append(@, k)]

\* init
init(t, hasParams) ==
    setupObserver(updateLinks(storeTrackingParams(t, hasParams)))

InitTracker ==
    /\ files = InitialFiles
    /\ req = [c \in Clients |-> IdleReq]
    /\ CrawlOff
    /\ LocOff
    /\ ConsentOff
    /\ segment = <<>> /\ news = <<>> /\ xdl = <<>>
    /\ tracker \in { [pc |-> "loading", observer |-> 0, observers |-> <<>>,
                      timers |-> <<>>, debounce |-> {}, stored |-> st,
                      links |-> [i \in 1..n |-> FALSE], inits |-> 0]
                     : st \in BOOLEAN, n \in 0..1 }

\* DOMContentLoaded: the first run of init
TrackerLoaded ==
    /\ tracker.pc = "loading"
    /\ \E hasParams \in BOOLEAN :
          tracker' = [init(tracker, hasParams) EXCEPT !.pc = "ready",
                                                      !.inits = 1]
    /\ UNCHANGED besideTracker

\* a popstate event: init runs again
Popstate ==
    /\ tracker.pc = "ready"
    /\ tracker.inits < MaxInits
    /\ \E hasParams \in BOOLEAN :
          tracker' = [init(tracker, hasParams) EXCEPT !.inits = @ + 1]
    /\ UNCHANGED besideTracker

\* the page adds a link: every connected observer's callback finds a new
\* link and calls its debounced update
AddLink ==
    /\ tracker.pc = "ready"
    /\ Len(tracker.links) < MaxLinks
    /\ tracker' = [tracker EXCEPT !.links = Append(@, FALSE),
                                  !.debounce = @ \cup Connected(tracker)]
    /\ UNCHANGED besideTracker

\* observerDebounceMs after the last call updateLinks runs
DebounceFires(k) ==
    /\ tracker.pc = "ready"
    /\ k \in tracker.debounce
    /\ tracker' = [updateLinks(tracker) EXCEPT !.debounce = @ \ {k}]
    /\ UNCHANGED besideTracker

\* the oldest maxObserverTime timer fires: whatever `observer` holds by now
\* is disconnected and `observer` is set to null
ObserverTimeout ==
    /\ tracker.pc = "ready"
    /\ tracker.timers # <<>>
    /\ tracker' =
          IF tracker.observer = 0
              THEN [tracker EXCEPT !.timers = Tail(@)]
          ELSE [tracker EXCEPT !.timers = Tail(@),
                               !.observers[tracker.observer] = FALSE,
                               !.observer = 0]
    /\ UNCHANGED besideTracker

\* beforeunload: the observer that `observer` holds is disconnected
BeforeUnload ==
    /\ tracker.pc = "ready"
    /\ tracker' =
          IF tracker.observer = 0
              THEN [tracker EXCEPT !.pc = "unloaded"]
          ELSE [tracker EXCEPT !.pc = "unloaded",
                               !.observers[tracker.observer] = FALSE]
    /\ UNCHANGED besideTracker

NextTracker ==
    \/ TrackerLoaded
    \/ Popstate
    \/ AddLink
    \/ \E k \in 1..MaxInits : DebounceFires(k)
    \/ ObserverTimeout
    \/ BeforeUnload

SpecTracker == InitTracker /\ [][NextTracker]_vars

\* the timer set with observer k fires in this step
TimerFires(k) ==
    /\ tracker.pc = "ready"
    /\ tracker.timers # <<>>
    /\ Head(tracker.timers) = k
    /\ tracker'.timers = Tail(tracker.timers)

\* at most one observer of the script is connected
C27_AtMostOneConnected ==
    tracker # <<>> => Cardinality(Connected(tracker)) <= 1

\* when maxObserverTime has elapsed since observer k was made, k is
\* disconnected
C27_DisconnectedAtTimeout ==
    \A k \in 1..MaxInits : TimerFires(k) => ~tracker'.observers[k]

\* C27: every MutationObserver made by setupObserver is disconnected once
\* maxObserverTime has elapsed since its creation, and at most one such
\* observer is connected at a time, also when init runs more than once on a
\* page (DOMContentLoaded followed by popstate events).
C27_TimeoutStep == [][C27_DisconnectedAtTimeout]_vars

C27_OneObserverDisconnectedInTime ==
    /\ []C27_AtMostOneConnected
    /\ [][C27_DisconnectedAtTimeout]_vars

----------------------------------------------------------------------------
(* Segment tracking (src/unnamed/part_002, the DOMContentLoaded handler of  *)
(* the Segment tracking script). segment.analytics is window.analytics:     *)
(* "absent", the "stub" of the Segment snippet, whose ready function queues *)
(* callbacks, or the "ready" library. news is one newsletter form: its      *)
(* closure's isTracking flag, the attempts counter of each checkFormState   *)
(* interval that is set, the block Webflow shows, and counters of what has  *)
(* happened: submit events, submissions accepted for tracking, outcome      *)
(* events tracked and the last one's kind.                                  *)

\* submit events on the form
MaxSubmits == 3

maxAttempts_checkFormState == 30

maxAttempts_checkInterval == 20

WebflowBlocks == {"none", "done", "fail_already", "fail_other"}

\* newsletter.subscribed, and the error types of newsletter.error
TrackedOutcomes ==
    {"subscribed", "duplicate_email", "submission_error", "timeout"}


\* window.analytics && typeof window.analytics.ready === 'function'
AnalyticsAvailable(s) == s.analytics # "absent"

\* initSegmentTracking: window.analytics.ready(callback); the ready library
\* runs the callback, the stub queues it
initSegmentTracking(s) ==
    IF s.analytics = "ready"
        THEN [s EXCEPT !.inits = @ + 1, !.listeners = @ + 1]
    ELSE [s EXCEPT !.inits = @ + 1, !.readyQueue = @ + 1]

\* the interval callback that goes on polling after it has found analytics
checkInterval_NoClear(s) ==
    LET t == [s EXCEPT !.attempts = @ + 1]
    IN  IF AnalyticsAvailable(t)
            THEN initSegmentTracking(t)
        ELSE IF t.attempts >= maxAttempts_checkInterval
            THEN [t EXCEPT !.interval = FALSE]
        ELSE t

\* the callback of checkInterval
checkInterval(s) ==
    LET t == [s EXCEPT !.attempts = @ + 1]
    IN  IF AnalyticsAvailable(t)
            THEN initSegmentTracking([t EXCEPT !.interval = FALSE])
        ELSE IF t.attempts >= maxAttempts_checkInterval
            THEN [t EXCEPT !.interval = FALSE]
        ELSE t

\* the submit listener without its isTracking flag
submitListener_NoFlag(n) ==
    [n EXCEPT !.submits = @ + 1,
              !.isTracking = TRUE,
              !.accepted = @ + 1,
              !.pollers = Append(@, 0)]

\* the form's submit listener
submitListener(n) ==
    IF n.isTracking THEN [n EXCEPT !.submits = @ + 1]
    ELSE [n EXCEPT !.submits = @ + 1,
                   !.isTracking = TRUE,
                   !.accepted = @ + 1,
                   !.pollers = Append(@, 0)]

RemoveAt(seq, i) == SubSeq(seq, 1, i - 1) \o SubSeq(seq, i + 1, Len(seq))

\* window.analytics.track of an outcome; clearInterval(checkFormState);
\* isTracking = false
TrackOutcome(n, i, outcome) ==
    [n EXCEPT !.events = @ + 1,
              !.last = outcome,
              !.pollers = RemoveAt(@, i),
              !.isTracking = FALSE]

\* the callback of the i-th checkFormState interval
checkFormState(n, i) ==
    LET attempts == n.pollers[i] + 1
    IN  IF n.blocks = "done" THEN TrackOutcome(n, i, "subscribed")
        ELSE IF n.blocks = "fail_already"
            THEN TrackOutcome(n, i, "duplicate_email")
        ELSE IF n.blocks = "fail_other"
            THEN TrackOutcome(n, i, "submission_error")
        ELSE IF attempts >= maxAttempts_checkFormState
            THEN TrackOutcome(n, i, "timeout")
        ELSE [n EXCEPT !.pollers[i] = attempts]

InitSegment ==
    /\ files = InitialFiles
    /\ req = [c \in Clients |-> IdleReq]
    /\ CrawlOff
    /\ LocOff
    /\ ConsentOff
    /\ tracker = <<>> /\ xdl = <<>>
    /\ segment \in { [pc |-> "loading", analytics |-> a, interval |-> FALSE,
                      attempts |-> 0, inits |-> 0, readyQueue |-> 0,
                      listeners |-> 0]
                     : a \in {"absent", "stub", "ready"} }
    /\ news = [isTracking |-> FALSE, pollers |-> <<>>, blocks |-> "none",
               submits |-> 0, accepted |-> 0, events |-> 0, last |-> "none"]

\* DOMContentLoaded
SegmentLoaded ==
    /\ segment.pc = "loading"
    /\ segment' =
          IF AnalyticsAvailable(segment)
              THEN initSegmentTracking([segment EXCEPT !.pc = "loaded"])
          ELSE [segment EXCEPT !.pc = "loaded", !.interval = TRUE]
    /\ UNCHANGED <<news, besideSeg>>

\* checkInterval fires, 500 ms after it last did
CheckInterval ==
    /\ segment.interval
    /\ segment' = checkInterval(segment)
    /\ UNCHANGED <<news, besideSeg>>

\* the privacy banner script inserts the Segment snippet
SnippetInstalled ==
    /\ segment.analytics = "absent"
    /\ segment' = [segment EXCEPT !.analytics = "stub"]
    /\ UNCHANGED <<news, besideSeg>>

\* the Segment library has loaded: the queued ready callbacks run
LibraryReady ==
    /\ segment.analytics = "stub"
    /\ segment' = [segment EXCEPT !.analytics = "ready",
                                  !.listeners = @ + segment.readyQueue,
                                  !.readyQueue = 0]
    /\ UNCHANGED <<news, besideSeg>>

\* the visitor submits the newsletter form
Submit ==
    /\ segment # <<>>
    /\ segment.listeners >= 1
    /\ news.submits < MaxSubmits
    /\ news' = submitListener(news)
    /\ UNCHANGED <<segment, besideSeg>>

\* the i-th checkFormState interval fires
Poll(i) ==
    /\ news # <<>>
    /\ i \in DOMAIN news.pollers
    /\ news' = checkFormState(news, i)
    /\ UNCHANGED <<segment, besideSeg>>

\* Webflow shows its success block or its failure block, or hides them
Webflow(block) ==
    /\ segment # <<>>
    /\ segment.listeners >= 1
    /\ news.blocks # block
    /\ news' = [news EXCEPT !.blocks = block]
    /\ UNCHANGED <<segment, besideSeg>>

NextSegment ==
    \/ SegmentLoaded
    \/ CheckInterval
    \/ SnippetInstalled
    \/ LibraryReady
    \/ Submit
    \/ \E i \in 1..MaxSubmits : Poll(i)
    \/ \E block \in WebflowBlocks : Webflow(block)

SpecSegment == InitSegment /\ [][NextSegment]_vars

\* an interval that is set keeps firing until it is cleared
FairSegment ==
    /\ SpecSegment
    /\ WF_vars(CheckInterval)
    /\ WF_vars(\E i \in 1..MaxSubmits : Poll(i))

\* every accepted submission is being polled by one interval or has one
\* outcome event; one interval at most is set, and it has fired less than
\* maxAttempts times
C28_OneOutcomeEach ==
    news # <<>> =>
        /\ news.accepted = news.events + Len(news.pollers)
        /\ Len(news.pollers) <= 1
        /\ news.isTracking <=> news.pollers # <<>>
        /\ \A i \in DOMAIN news.pollers :
              news.pollers[i] < maxAttempts_checkFormState
        /\ news.events >= 1 <=> news.last \in TrackedOutcomes

\* a submit event while the form is being polled changes nothing
C28_SubmitWhilePolled ==
    (news # <<>> /\ news.pollers # <<>> /\ news'.submits = news.submits + 1)
        => /\ news'.pollers = news.pollers
           /\ news'.accepted = news.accepted
           /\ news'.events = news.events

\* the polling of a submission ends
C28_PollingEnds ==
    (news # <<>> /\ news.pollers # <<>>) ~> (news.pollers = <<>>)

\* C28: each newsletter form submission accepted for tracking produces
\* exactly one tracked outcome event (subscribed, or an error of type
\* submission, duplicate or timeout), its polling interval is cleared after
\* at most 30 polls, and a submit arriving while a previous submission of
\* the form is still being polled starts no second poller and produces no
\* second event.
C28_OneTrackedOutcome ==
    /\ []C28_OneOutcomeEach
    /\ [][C28_SubmitWhilePolled]_vars
    /\ C28_PollingEnds

\* two submissions tracked, one of them to its timeout, and one submit
\* ignored while the form was being polled
C28_Witness ==
    /\ news # <<>>
    /\ news.submits = 3 /\ news.accepted = 2 /\ news.events = 2
    /\ news.last = "timeout"

\* the interval is set only while fewer than maxAttempts attempts were made,
\* and initSegmentTracking has run once at most
C29_BoundedWait ==
    segment # <<>> =>
        /\ segment.attempts <= maxAttempts_checkInterval
        /\ segment.interval =>
              segment.attempts < maxAttempts_checkInterval
        /\ segment.inits <= 1
        /\ segment.interval => segment.inits = 0

\* the wait ends
C29_WaitEnds ==
    (segment # <<>> /\ segment.interval) ~> ~segment.interval

\* C29: the wait for Segment analytics terminates: the polling interval is
\* cleared after at most 20 attempts whether or not window.analytics ever
\* becomes available, and initSegmentTracking is invoked at most once per
\* page load.
C29_WaitTerminates ==
    /\ []C29_BoundedWait
    /\ C29_WaitEnds

\* analytics was found by the last attempt
C29_Witness ==
    /\ segment # <<>>
    /\ ~segment.interval
    /\ segment.attempts = maxAttempts_checkInterval
    /\ segment.inits = 1

----------------------------------------------------------------------------
(* Cross-domain links (src/unnamed/part_002, the cross-domain link script). *)
(* xdl.analytics says whether window.analytics.user exists, xdl.id is the   *)
(* anonymous id that analytics.user() holds (<<>>: none), xdl.links the     *)
(* page's links, each with the href it came with (orig) and the href it has *)
(* now, xdl.observing whether startObserver's MutationObserver is           *)
(* connected. xdl.id0 keeps the id the page started with, xdl.threw whether *)
(* a call of analytics.user().anonymousId(fullId) has thrown, xdl.calls     *)
(* counts the runs of initialize and xdl.pages the analytics.page() calls.  *)
(* xdl.pc is where the script's start is: not yet run ("script"), waiting   *)
(* for the load event ("load"), waiting for the 1000 ms timer ("timer"), or *)
(* past its first waitForAnalytics ("run"). xdl.readyTimer says whether the *)
(* 3000 ms readyTimeout is pending, xdl.readyCallback whether the callback  *)
(* given to analytics.ready has yet to run, xdl.retry is the attempt of the *)
(* pending 500 ms retry timer (0: none). window.analytics is "absent", the  *)
(* "stub" of the Segment snippet (ready and page, no user) or "ready".      *)

\* links on one page
MaxAnchors == 2

\* if (attempt > 20) return
waitForAnalytics_maxAttempt == 20

Https == <<"h","t","t","p","s",":","/","/">>

ClaudeAi == <<"c","l","a","u","d","e",".","a","i">>

RedirectMark == <<"/","r","e","d","i","r","e","c","t","/">>

sourceAttribution == <<"w","e","b","s","i","t","e",".","v","1">>

\* sourceAttribution + '.'
SourcePrefix == sourceAttribution \o <<DOT>>

\* s.includes(sub), and the attribute selector [href*="sub"]
Includes(s, sub) ==
    \E i \in 1..(Len(s) - Len(sub) + 1) : SubSeq(s, i, i + Len(sub) - 1) = sub

\* s.endsWith(suffix)
EndsWith(s, suffix) ==
    /\ Len(suffix) <= Len(s)
    /\ SubSeq(s, Len(s) - Len(suffix) + 1, Len(s)) = suffix

\* how many times sub occurs in s
Occurrences(s, sub) ==
    Cardinality({ i \in 1..(Len(s) - Len(sub) + 1) :
                    SubSeq(s, i, i + Len(sub) - 1) = sub })

\* index of the first character of s that is in stops, Len(s) + 1 if none
FirstStop(s, stops) ==
    IF \E i \in 1..Len(s) : s[i] \in stops
        THEN CHOOSE i \in 1..Len(s) :
                /\ s[i] \in stops
                /\ \A j \in 1..(i - 1) : s[j] \notin stops
    ELSE Len(s) + 1

\* new URL(href) of an absolute https URL: hostname, pathname ("/" when the
\* URL has none) and what follows the path (search and hash)
ParseUrl(href) ==
    LET after == SubSeq(href, Len(Https) + 1, Len(href))
        e == FirstStop(after, {"/", "?", "#"})
        rest == SubSeq(after, e, Len(after))
        q == FirstStop(rest, {"?", "#"})
    IN  [hostname |-> SubSeq(after, 1, e - 1),
         pathname |-> IF q = 1 THEN <<SLASH>> ELSE SubSeq(rest, 1, q - 1),
         tail |-> SubSeq(rest, q, Len(rest))]

\* url.toString()
UrlToString(url) == Https \o url.hostname \o url.pathname \o url.tail

\* the href with its path behind /redirect/<anonymousId>
Redirected(href, anonymousId) ==
    LET url == ParseUrl(href)
        originalPath == IF url.pathname = <<SLASH>> THEN <<>> ELSE url.pathname
    IN  UrlToString([url EXCEPT
                       !.pathname = RedirectMark \o anonymousId \o originalPath])

\* the body of wrapLinks' forEach for one selected link
WrapLink(href, anonymousId) ==
    IF EndsWith(ParseUrl(href).hostname, ClaudeAi)
        THEN Redirected(href, anonymousId)
    ELSE href

\* a[href*="claude.ai"]:not([href*="/redirect/"])
Selected(href) == Includes(href, ClaudeAi) /\ ~Includes(href, RedirectMark)

\* the id wrapLinks goes on with, and the id analytics.user() holds after:
\* the prefixed id when the id lacked the prefix, unless setting it threw
IdAfter(id, throws) ==
    IF StartsWith(id, SourcePrefix) THEN [used |-> id, stored |-> id]
    ELSE IF throws THEN [used |-> id, stored |-> id]
    ELSE [used |-> SourcePrefix \o id, stored |-> SourcePrefix \o id]

\* wrapLinks whose selector takes the links with "/redirect/" too
wrapLinks_AnyClaudeLink(x, scope, throws) ==
    IF x.analytics # "ready" \/ x.id = <<>> THEN x
    ELSE LET ids == IdAfter(x.id, throws)
         IN  [x EXCEPT
                !.id = ids.stored,
                !.threw = @ \/ (throws /\ ~StartsWith(x.id, SourcePrefix)),
                !.links = [i \in DOMAIN x.links |->
                    IF i \in scope /\ Includes(x.links[i].href, ClaudeAi)
                        THEN [x.links[i] EXCEPT
                                !.href = WrapLink(@, ids.used)]
                    ELSE x.links[i]]]

\* wrapLinks(container): scope is the set of links inside the container,
\* throws whether analytics.user().anonymousId(fullId) throws if called
wrapLinks(x, scope, throws) ==
    IF x.analytics # "ready" \/ x.id = <<>> THEN x
    ELSE LET ids == IdAfter(x.id, throws)
         IN  [x EXCEPT
                !.id = ids.stored,
                !.threw = @ \/ (throws /\ ~StartsWith(x.id, SourcePrefix)),
                !.links = [i \in DOMAIN x.links |->
                    IF i \in scope /\ Selected(x.links[i].href)
                        THEN [x.links[i] EXCEPT
                                !.href = WrapLink(@, ids.used)]
                    ELSE x.links[i]]]

\* startObserver
startObserver(x) ==
    IF x.analytics # "ready" THEN x ELSE [x EXCEPT !.observing = TRUE]

\* initialize: wrapLinks(); startObserver(); analytics.page()
initialize(x, throws) ==
    [startObserver(wrapLinks(x, DOMAIN x.links, throws))
        EXCEPT !.calls = @ + 1,
               !.pages = IF x.analytics = "absent" THEN @ ELSE @ + 1]

\* waitForAnalytics(attempt)
waitForAnalytics(x, attempt, throws) ==
    IF x.analytics = "ready" THEN initialize(x, throws)
    ELSE IF x.analytics = "stub" /\ attempt = 1
        THEN [x EXCEPT !.readyTimer = TRUE, !.readyCallback = TRUE]
    ELSE IF attempt > waitForAnalytics_maxAttempt THEN x
    ELSE [x EXCEPT !.retry = attempt + 1]

K_chat == Https \o ClaudeAi \o <<"/","c">>
K_root == Https \o ClaudeAi \o <<SLASH>>
K_bare == Https \o ClaudeAi
K_query == Https \o ClaudeAi \o <<"/","n","?","q">>
K_sub == Https \o <<"a",".">> \o ClaudeAi \o <<"/","c">>
K_other == Https \o <<"e",".","o","r","g","/">> \o ClaudeAi
K_redirected == Https \o ClaudeAi \o RedirectMark \o <<"x">>
K_plain == Https \o <<"e",".","o","r","g","/","c">>

\* hrefs of the page's links
AnchorPool ==
    {K_chat, K_root, K_bare, K_query, K_sub, K_other, K_redirected, K_plain}

RawId == <<"u">>

\* anonymous ids a page load starts with: none, a fresh Segment id, the id a
\* page wrapped before
StartIds == {<<>>, RawId, SourcePrefix \o RawId}

Anchor(href) == [orig |-> href, href |-> href]

InitLinks ==
    /\ files = InitialFiles
    /\ req = [c \in Clients |-> IdleReq]
    /\ CrawlOff
    /\ LocOff
    /\ ConsentOff
    /\ tracker = <<>> /\ segment = <<>> /\ news = <<>>
    /\ xdl \in { [analytics |-> a, id |-> id, id0 |-> id, threw |-> FALSE,
                  links |-> <<Anchor(h)>>, observing |-> FALSE, calls |-> 0,
                  pages |-> 0, pc |-> "script", readyTimer |-> FALSE,
                  readyCallback |-> FALSE, retry |-> 0]
                 : a \in {"absent", "stub", "ready"}, id \in StartIds,
                   h \in AnchorPool }

\* the script runs: waitForAnalytics() when window.analytics is there, else
\* a listener for the load event
ScriptRuns ==
    /\ xdl # <<>>
    /\ xdl.pc = "script"
    /\ \E throws \in BOOLEAN :
          xdl' = IF xdl.analytics # "absent"
                     THEN waitForAnalytics([xdl EXCEPT !.pc = "run"], 1, throws)
                 ELSE [xdl EXCEPT !.pc = "load"]
    /\ UNCHANGED besideLinks

\* the load event: setTimeout(waitForAnalytics, 1000)
LoadEvent ==
    /\ xdl # <<>>
    /\ xdl.pc = "load"
    /\ xdl' = [xdl EXCEPT !.pc = "timer"]
    /\ UNCHANGED besideLinks

\* the 1000 ms timer fires: waitForAnalytics(), attempt 1
LoadTimer ==
    /\ xdl # <<>>
    /\ xdl.pc = "timer"
    /\ \E throws \in BOOLEAN :
          xdl' = waitForAnalytics([xdl EXCEPT !.pc = "run"], 1, throws)
    /\ UNCHANGED besideLinks

\* readyTimeout fires: waitForAnalytics(2)
ReadyTimeout ==
    /\ xdl # <<>>
    /\ xdl.readyTimer
    /\ \E throws \in BOOLEAN :
          xdl' = waitForAnalytics([xdl EXCEPT !.readyTimer = FALSE], 2, throws)
    /\ UNCHANGED besideLinks

\* the library runs the callback given to analytics.ready:
\* clearTimeout(readyTimeout); initialize()
ReadyCallback ==
    /\ xdl # <<>>
    /\ xdl.analytics = "ready"
    /\ xdl.readyCallback
    /\ \E throws \in BOOLEAN :
          xdl' = initialize([xdl EXCEPT !.readyCallback = FALSE,
                                        !.readyTimer = FALSE], throws)
    /\ UNCHANGED besideLinks

\* a 500 ms retry timer fires: waitForAnalytics(attempt + 1)
RetryTimer ==
    /\ xdl # <<>>
    /\ xdl.retry # 0
    /\ \E throws \in BOOLEAN :
          xdl' = waitForAnalytics([xdl EXCEPT !.retry = 0], xdl.retry, throws)
    /\ UNCHANGED besideLinks

\* the page adds a link inside an element that holds the links of scope; a
\* connected observer calls wrapLinks on that element when the element has
\* a link with "claude.ai" in its href
AddAnchor ==
    /\ xdl # <<>>
    /\ Len(xdl.links) < MaxAnchors
    /\ \E h \in AnchorPool, others \in SUBSET DOMAIN xdl.links,
          throws \in BOOLEAN :
          LET added == [xdl EXCEPT !.links = Append(@, Anchor(h))]
              scope == others \cup {Len(added.links)}
          IN  xdl' = IF xdl.observing /\ Includes(h, ClaudeAi)
                         THEN wrapLinks(added, scope, throws)
                     ELSE added
    /\ UNCHANGED besideLinks

\* the privacy banner script inserts the Segment snippet
AnalyticsArrives ==
    /\ xdl # <<>>
    /\ xdl.analytics = "absent"
    /\ xdl' = [xdl EXCEPT !.analytics = "stub"]
    /\ UNCHANGED besideLinks

\* the Segment library has loaded: window.analytics.user is there
LibraryLoads ==
    /\ xdl # <<>>
    /\ xdl.analytics = "stub"
    /\ xdl' = [xdl EXCEPT !.analytics = "ready"]
    /\ UNCHANGED besideLinks

NextLinks ==
    \/ ScriptRuns
    \/ LoadEvent
    \/ LoadTimer
    \/ ReadyTimeout
    \/ ReadyCallback
    \/ RetryTimer
    \/ AddAnchor
    \/ AnalyticsArrives
    \/ LibraryLoads

SpecLinks == InitLinks /\ [][NextLinks]_vars

\* a link to claude.ai or to a host under it
IsClaudeLink(href) ==
    LET hostname == ParseUrl(href).hostname
    IN  hostname = ClaudeAi \/ EndsWith(hostname, <<DOT>> \o ClaudeAi)

\* wrapLinks has run over the document with an anonymous id at hand
WrapLinksRan ==
    /\ xdl # <<>>
    /\ xdl.analytics = "ready"
    /\ xdl.observing
    /\ xdl.id # <<>>

\* the path of the link starts with /redirect/<id>, and that is the only
\* /redirect/ in it
CarriesOnce(href, id) ==
    /\ StartsWith(ParseUrl(href).pathname, RedirectMark \o id)
    /\ Occurrences(href, RedirectMark) = 1

\* the id starts with website.v1., and that is the only website.v1. in it
PrefixedOnce(id) ==
    /\ StartsWith(id, SourcePrefix)
    /\ Occurrences(id, SourcePrefix) = 1

\* C30, as stated: wrapLinks is idempotent: after any number of wrapLinks
\* calls (initial call and mutation-observer calls) each claude.ai link path
\* carries the /redirect/<anonymousId> prefix exactly once and the anonymous
\* id carries the website.v1. source prefix exactly once.
C30_ExactlyOnce ==
    WrapLinksRan =>
        /\ PrefixedOnce(xdl.id)
        /\ \A i \in DOMAIN xdl.links :
              IsClaudeLink(xdl.links[i].href)
                  => CarriesOnce(xdl.links[i].href, xdl.id)

\* a link whose href holds "/redirect/" is left as it is
C30_WrappedStaysPut ==
    xdl # <<>> =>
        \A i \in DOMAIN xdl.links :
            Includes(xdl.links[i].href, RedirectMark)
                => xdl'.links[i] = xdl.links[i]

\* no link holds /redirect/ or website.v1. twice, and no id website.v1. twice
C30_NeverTwice ==
    xdl # <<>> =>
        /\ Occurrences(xdl.id, SourcePrefix) <= 1
        /\ \A i \in DOMAIN xdl.links :
              /\ Occurrences(xdl.links[i].href, RedirectMark) <= 1
              /\ Occurrences(xdl.links[i].href, SourcePrefix) <= 1

\* after wrapLinks every claude.ai link that came without "/redirect/" is
\* the link it came as behind /redirect/<id>, the id being the prefixed id
\* unless setting it threw; and the id held is the prefixed id unless
\* setting it threw
C30_WrappedOnce ==
    WrapLinksRan =>
        /\ xdl.id \in {xdl.id0, SourcePrefix \o xdl.id0}
        /\ ~xdl.threw => PrefixedOnce(xdl.id)
        /\ \A i \in DOMAIN xdl.links :
              LET l == xdl.links[i]
              IN  IF IsClaudeLink(l.orig) /\ ~Includes(l.orig, RedirectMark)
                      THEN /\ \E id \in {xdl.id0, xdl.id} :
                                 /\ l.href = Redirected(l.orig, id)
                                 /\ CarriesOnce(l.href, id)
                           /\ ~xdl.threw => /\ l.href = Redirected(l.orig, xdl.id)
                                            /\ CarriesOnce(l.href, xdl.id)
                  ELSE IsClaudeLink(l.orig) => l.href = l.orig

\* C30, amended: wrapLinks is idempotent: a link whose href holds /redirect/
\* is never changed again, so no link carries /redirect/ and no id carries
\* website.v1. more than once; every claude.ai link that came without
\* /redirect/ carries /redirect/<id> exactly once, <id> being the anonymous
\* id with the website.v1. prefix exactly once unless setting the prefixed
\* id threw, and a claude.ai link that came with /redirect/ in its href is
\* left as it came.
C30_WrapLinksIdempotent ==
    /\ [](C30_NeverTwice /\ C30_WrappedOnce)
    /\ [][C30_WrappedStaysPut]_vars

\* two claude.ai links wrapped by two different calls of wrapLinks (from
\* initialize and from the observer), with the one prefixed
\* id, on a page that started with an unprefixed id
C30_Witness ==
    /\ WrapLinksRan
    /\ xdl.calls = 1
    /\ xdl.id0 = RawId /\ xdl.id = SourcePrefix \o RawId /\ ~xdl.threw
    /\ Len(xdl.links) = 2
    /\ xdl.links[1].orig = K_chat
    /\ xdl.links[1].href = Redirected(K_chat, xdl.id)
    /\ xdl.links[2].orig = K_bare
    /\ xdl.links[2].href = Redirected(K_bare, xdl.id)

\* initialize has run at most once, with one analytics.page() call
C31_InitializedOnce ==
    xdl # <<>> => xdl.calls <= 1 /\ xdl.pages <= 1

\* no retry timer is set for an attempt beyond the one that gives up
C31_RetriesBounded ==
    xdl # <<>> => xdl.retry <= waitForAnalytics_maxAttempt + 1

\* C31: in the cross-domain link script initialize runs at most once per
\* page load (so analytics.page() is sent at most once and one observer is
\* started), under every ordering of the 3-second ready timeout, the
\* analytics.ready callback and the 500 ms retry timers; and waitForAnalytics
\* stops retrying after at most 20 attempts.
C31_InitializeAtMostOnce ==
    C31_InitializedOnce /\ C31_RetriesBounded

\* C32: if showBanner is the last banner action invoked (no hideBanner, save
\* or Escape after it), the consent dialog is open and stays open, under
\* every timing of the 300 ms close timer started by an earlier hideBanner.
C32_ShownBannerStaysOpen ==
    (page # <<>> /\ page.lastBanner = "show") => page.dialogOpen

====
